---- MODULE Spec2Model ----
(***************************************************************************)
(* StackMint front end: the modal action flows (Burn, List, Transfer), the *)
(* CollectionFilter panel and the useCollection hook, as state machines.   *)
(*                                                                         *)
(* Representation.                                                         *)
(*  - A JavaScript string is a sequence of one-character strings, so that  *)
(*    toUpperCase, parseFloat, toString and the regular expressions are    *)
(*    computed character by character.                                     *)
(*  - A price (parseFloat result, priceRange entry, maxPrice) is an        *)
(*    integer number of thousandths; NaN is a value outside their range.*)
(*  - A wallet balance and a gas estimate are integers in units of         *)
(*    0.0001 STX.                                                          *)
(*  - Each component has its own specification; the variables of the       *)
(*    other components stay at their constructed values.                   *)
(***************************************************************************)
EXTENDS Integers, Sequences, FiniteSets, TLC

VARIABLES
    \* ---- BurnNFTModal (src/unnamed/part_000)
    burnIsOpen,        \* prop isOpen
    burnIsLoading,     \* prop isLoading
    burnUserBalance,   \* prop userBalance, units of 0.0001 STX
    confirmText,       \* useState('')
    burnIsSubmitting,  \* useState(false)
    burnError,         \* useState(null): Null or the message
    burnPending,       \* an onBurn promise is outstanding
    burnLog            \* history: the confirmText at each onBurn invocation

VARIABLES
    \* ---- ListNFTModal (src/unnamed/part_002, lines 1-462)
    listIsOpen,        \* prop isOpen
    listUserBalance,   \* prop userBalance, units of 0.0001 STX
    listFloorPrice,    \* prop nft.floorPrice: Null or a price
    listingType,       \* useState('fixed')
    price,             \* useState('')
    duration,          \* useState(7)
    reservePrice,      \* useState('')
    buyNowPrice,       \* useState('')
    listErrors,        \* useState({}): the set of keys holding a message
    listIsSubmitting,  \* useState(false)
    listPending,       \* an onList promise is outstanding
    listCalls          \* history: number of onList invocations

VARIABLES
    \* ---- CollectionFilter (src/frontend/src/components/CollectionFilter.tsx)
    filters,           \* prop filters: the FilterState the parent holds
    maxPrice,          \* prop maxPrice, thousandths
    localPriceMin,     \* useState(filters.priceRange[0].toString())
    localPriceMax,     \* useState(filters.priceRange[1].toString())
    filterLastOp,      \* history: the handler that ran last: "applyPriceRange",
                       \*   "clearAllFilters", "toggleTraitValue" or "other"
    toggleRun,         \* history: <<traitType, value, n>>, the last n (1 or 2)
                       \*   handlers were toggleTraitValue(traitType, value); <<>> if none
    traitsAtRunStart   \* history: filters.traits when that run began

VARIABLES
    \* ---- useCollection (src/unnamed/part_003)
    collection,        \* useState(null): Null or "mockCollection"
    nfts,              \* useState([]): sequence of [id, fetch]
    hookIsLoading,     \* useState(true)
    hookError,         \* useState(null)
    page,              \* useState(1)
    totalCount,        \* useState(0)
    hasMore,           \* useState(true)
    metaInFlight,      \* fetchCollection calls awaiting their timer, in the order
                       \*   of the calls: [refresh, capTotal, tick]; refresh = the call
                       \*   was made by refresh(), whose fetchNFTs closure holds
                       \*   totalCount = capTotal (0 for the other calls, which
                       \*   use no closure); tick = made by the interval
    nftInFlight,       \* fetchNFTs calls awaiting their timer:
                       \*   [fid, pageNum, append, capTotal]
    nextFid,           \* the number the next fetchNFTs call gets
    hookCalls,         \* history: number of fetchMore / refresh / setPage calls made
    hookLastOp,        \* history: the step taken last
    fetchMoreSaw,      \* history: [hasMore, isLoading, inFlight] as the fetchMore call of
                       \*   the last step found them; <<>> after any other step
    autoRefresh,       \* option autoRefresh
    refreshSaw         \* history: [nextFid, append, held] at the last refresh call:
                       \*   the number of the first fetch issued after it, whether an
                       \*   append-mode fetch was in flight, and whether nfts was non-empty;
                       \*   <<>> if none

VARIABLES
    \* ---- TransferNFTModal (src/unnamed/part_002, lines 884-1391)
    xferIsOpen,        \* prop isOpen
    xferUserBalance,   \* prop userBalance, units of 0.0001 STX
    recipient,         \* useState('')
    memo,              \* useState('')
    isValidating,      \* useState(false)
    addressValid,      \* useState(null): "null", "true" or "false"
    resolvedAddress,   \* useState(null): <<>> for null (the code tests it for
                       \*   truthiness only), else the address
    xferErrors,        \* useState({}): the set of keys holding a message
    xferIsSubmitting,  \* useState(false)
    showConfirmation,  \* useState(false)
    debounceTimer,     \* the timer of the debounce effect is pending; it holds the
                       \*   current recipient, every change of which replaces it
    resolving,         \* validateAddress calls awaiting the name resolution
    xferPending,       \* an onTransfer promise is outstanding
    recipientEdits,    \* history: number of changes of the recipient field
    xferCalls,         \* history: number of onTransfer invocations
    xferUntouched,     \* history: no user input since the modal was last opened
    xferLastOp,        \* history: the step taken last: "open", "continue", "confirm",
                       \*   "reject", "resolve", "escape", or "other"
    xferLastCall       \* history: <<[typed, sent]>>, the recipient field and the
                       \*   recipient handed over at the last onTransfer; <<>> if none

VARIABLES
    \* ---- CancelListingModal (src/unnamed/part_001)
    cancelIsOpen,       \* prop isOpen
    cancelUserBalance,  \* prop userBalance, units of 0.0001 STX
    cancelIsSubmitting, \* useState(false)
    cancelError,        \* useState(null): Null or the message
    cancelPending,      \* an onCancel promise is outstanding
    cancelCalls         \* history: number of onCancel invocations

VARIABLES
    \* ---- MakeOfferModal (src/unnamed/part_002, lines 464-883)
    offerIsOpen,        \* prop isOpen
    offerUserBalance,   \* prop userBalance, thousandths of an STX
    offerWstxBalance,   \* prop wstxBalance, thousandths
    offerCurrentPrice,  \* prop nft.currentPrice: <<>> or <<price>>, thousandths
    offerFloorPrice,    \* prop nft.floorPrice: <<>> or <<price>>, thousandths
    amount,             \* useState('')
    expiration,         \* useState(DEFAULT_EXPIRATION)
    message,            \* useState('')
    offerErrors,        \* useState({}): the set of keys holding a message
    offerIsSubmitting,  \* useState(false)
    offerPending,       \* an onOffer promise is outstanding
    offerCalls,         \* history: number of onOffer invocations
    offerLastCall       \* history: <<data>>, the OfferData of the last onOffer; <<>> if none

VARIABLES
    mounted             \* the component the page under consideration has mounted

burnVars == <<burnIsOpen, burnIsLoading, burnUserBalance, confirmText,
              burnIsSubmitting, burnError, burnPending, burnLog>>

listVars == <<listIsOpen, listUserBalance, listFloorPrice, listingType, price,
              duration, reservePrice, buyNowPrice, listErrors, listIsSubmitting,
              listPending, listCalls>>

filterVars == <<filters, maxPrice, localPriceMin, localPriceMax, filterLastOp,
                toggleRun, traitsAtRunStart>>

hookState == <<collection, nfts, hookIsLoading, hookError, page, totalCount, hasMore>>

hookVars == <<hookState, metaInFlight, nftInFlight, nextFid, hookCalls, hookLastOp,
              fetchMoreSaw, autoRefresh, refreshSaw>>

xferVars == <<xferIsOpen, xferUserBalance, recipient, memo, isValidating,
              addressValid, resolvedAddress, xferErrors, xferIsSubmitting,
              showConfirmation, debounceTimer, resolving, xferPending,
              recipientEdits, xferCalls, xferUntouched, xferLastOp, xferLastCall>>

cancelVars == <<cancelIsOpen, cancelUserBalance, cancelIsSubmitting, cancelError,
                cancelPending, cancelCalls>>

offerVars == <<offerIsOpen, offerUserBalance, offerWstxBalance, offerCurrentPrice,
               offerFloorPrice, amount, expiration, message, offerErrors,
               offerIsSubmitting, offerPending, offerCalls, offerLastCall>>

vars == <<burnVars, listVars, filterVars, hookVars, xferVars, cancelVars, offerVars,
          mounted>>

\* The variables of the other components
notBurn == <<listVars, filterVars, hookVars, xferVars, cancelVars, offerVars, mounted>>
notList == <<burnVars, filterVars, hookVars, xferVars, cancelVars, offerVars, mounted>>
notFilter == <<burnVars, listVars, hookVars, xferVars, cancelVars, offerVars, mounted>>
notHook == <<burnVars, listVars, filterVars, xferVars, cancelVars, offerVars, mounted>>
notXfer == <<burnVars, listVars, filterVars, hookVars, cancelVars, offerVars, mounted>>
notCancel == <<burnVars, listVars, filterVars, hookVars, xferVars, offerVars, mounted>>
notOffer == <<burnVars, listVars, filterVars, hookVars, xferVars, cancelVars, mounted>>

Null == "null"
\* NaN is a number outside the range of every modelled price.
NaN == 0 - 2000000000

(***************************************************************************)
(* Bounds of the model                                                     *)
(***************************************************************************)
\* onBurn invocations recorded in one run
MaxBurnCalls == 2
\* onList invocations recorded in one run
MaxListCalls == 2
\* fetchMore / refresh / setPage calls made on the hook in one run
MaxHookCalls == 3
\* fetchCollection calls of the auto-refresh interval awaiting their timer at once
MaxTickFetches == 1
\* changes of the transfer recipient field in one run
MaxRecipientEdits == 3
\* onTransfer invocations recorded in one run
MaxTransferCalls == 2
\* onCancel invocations in one run
MaxCancelCalls == 2
\* onOffer invocations in one run
MaxOfferCalls == 2

(***************************************************************************)
(* Characters and strings                                                  *)
(***************************************************************************)
LowerLetters == <<"a","b","c","d","e","f","g","h","i","j","k","l","m",
                  "n","o","p","q","r","s","t","u","v","w","x","y","z">>
UpperLetters == <<"A","B","C","D","E","F","G","H","I","J","K","L","M",
                  "N","O","P","Q","R","S","T","U","V","W","X","Y","Z">>
DigitChars   == <<"0","1","2","3","4","5","6","7","8","9">>

Range(s) == {s[i] : i \in DOMAIN s}

IndexOf(c, s) == CHOOSE i \in DOMAIN s : s[i] = c

\* String.prototype.toUpperCase on one character
ToUpperChar(c) ==
    IF c \in Range(LowerLetters) THEN UpperLetters[IndexOf(c, LowerLetters)] ELSE c

\* String.prototype.toUpperCase
ToUpperCase(s) == [i \in DOMAIN s |-> ToUpperChar(s[i])]

\* 'X'.repeat(n)
Repeat(c, n) == [i \in 1..n |-> c]

(***************************************************************************)
(* Numbers: parseFloat, Number.prototype.toString, comparisons with NaN    *)
(***************************************************************************)
IsDigit(c) == c \in Range(DigitChars)
DigitVal(c) == IndexOf(c, DigitChars) - 1
IsSpace(c) == c = " "

\* Length of the maximal run of digits of s from index j on
DigitRunLen(s, j) ==
    CHOOSE n \in 0..(Len(s) + 1 - j) :
        /\ \A k \in j..(j + n - 1) : IsDigit(s[k])
        /\ (j + n > Len(s) \/ ~IsDigit(s[j + n]))

\* Length of the leading white space of s
SpaceRunLen(s) ==
    CHOOSE n \in 0..Len(s) :
        /\ \A k \in 1..n : IsSpace(s[k])
        /\ (n + 1 > Len(s) \/ ~IsSpace(s[n + 1]))

RECURSIVE DigitsToNat(_, _, _)
\* The decimal value of the n digits of s starting at index j
DigitsToNat(s, j, n) ==
    IF n = 0 THEN 0 ELSE DigitsToNat(s, j, n - 1) * 10 + DigitVal(s[j + n - 1])

\* The first three fraction digits of s from index j (n digits present), as thousandths
FracToThousandths(s, j, n) ==
    LET d(k) == IF k <= n THEN DigitVal(s[j + k - 1]) ELSE 0
    IN  d(1) * 100 + d(2) * 10 + d(3)

\* parseFloat(s), in thousandths: leading white space, an optional sign, the
\* longest decimal literal that prefixes the rest; NaN when there is none. Fraction
\* digits beyond the third are dropped; exponents and "Infinity" are not modelled
\* (no modelled input text has them).
ParseFloat(s) ==
    LET ws    == SpaceRunLen(s)
        a     == ws + 1
        neg   == a <= Len(s) /\ s[a] = "-"
        b     == IF a <= Len(s) /\ s[a] \in {"+", "-"} THEN a + 1 ELSE a
        ni    == DigitRunLen(s, b)
        c     == b + ni
        dot   == c <= Len(s) /\ s[c] = "."
        nf    == IF dot THEN DigitRunLen(s, c + 1) ELSE 0
        mag   == DigitsToNat(s, b, ni) * 1000 + FracToThousandths(s, c + 1, nf)
    IN  IF ni = 0 /\ nf = 0 THEN NaN
        ELSE IF neg THEN 0 - mag ELSE mag

RECURSIVE NatToString(_)
\* The decimal digits of a natural number
NatToString(n) ==
    IF n < 10 THEN <<DigitChars[n + 1]>>
    ELSE NatToString(n \div 10) \o <<DigitChars[(n % 10) + 1]>>

\* The fraction digits of t thousandths (0 < t < 1000) without trailing zeros
FracToString(t) ==
    IF t % 100 = 0 THEN <<DigitChars[(t \div 100) + 1]>>
    ELSE IF t % 10 = 0
         THEN <<DigitChars[(t \div 100) + 1], DigitChars[((t \div 10) % 10) + 1]>>
         ELSE <<DigitChars[(t \div 100) + 1], DigitChars[((t \div 10) % 10) + 1],
                DigitChars[(t % 10) + 1]>>

\* Number.prototype.toString of a number given in thousandths
NumberToString(x) ==
    IF x = NaN THEN <<"N", "a", "N">>
    ELSE LET m == IF x < 0 THEN 0 - x ELSE x
             body == NatToString(m \div 1000)
                     \o (IF m % 1000 = 0 THEN <<>> ELSE <<".">> \o FracToString(m % 1000))
         IN  IF x < 0 THEN <<"-">> \o body ELSE body

\* x || y on numbers: NaN and 0 are falsy
NumOr(x, y) == IF x = NaN \/ x = 0 THEN y ELSE x

\* Comparisons: every comparison with NaN is false
JsLt(x, y) == x # NaN /\ y # NaN /\ x < y
JsLe(x, y) == x # NaN /\ y # NaN /\ x <= y
JsGe(x, y) == x # NaN /\ y # NaN /\ x >= y
JsGt(x, y) == x # NaN /\ y # NaN /\ x > y

\* Math.min / Math.max of two numbers: NaN when either is NaN
MathMin(x, y) == IF x = NaN \/ y = NaN THEN NaN ELSE IF x <= y THEN x ELSE y
MathMax(x, y) == IF x = NaN \/ y = NaN THEN NaN ELSE IF x >= y THEN x ELSE y

(***************************************************************************)
(* BurnNFTModal                                                            *)
(***************************************************************************)
\* const BURN_GAS_ESTIMATE = 0.0003, in units of 0.0001 STX
BURN_GAS_ESTIMATE == 3

requiredConfirmText == <<"B","U","R","N">>

\* A plausible slip: the comparison without the case fold.
isConfirmedCaseSensitive == confirmText = requiredConfirmText

isConfirmed == ToUpperCase(confirmText) = requiredConfirmText

burnHasEnoughGas == burnUserBalance >= BURN_GAS_ESTIMATE

burnLoading == burnIsLoading \/ burnIsSubmitting

\* disabled={loading || !isConfirmed || !hasEnoughGas} on the Burn button
burnSubmitDisabled == burnLoading \/ ~isConfirmed \/ ~burnHasEnoughGas

\* The texts typed into the confirmation field.
ConfirmTexts ==
    { <<>>,
      <<"B","U","R","N">>, <<"b","u","r","n">>, <<"B","u","R","n">>,
      <<"B","U","R">>, <<"B","U","R","N","S">>, <<" ","B","U","R","N">>,
      <<"N","R","U","B">>, <<"b","u","r","m">> }

BurnBalances == {BURN_GAS_ESTIMATE - 1, BURN_GAS_ESTIMATE, BURN_GAS_ESTIMATE + 1}

BurnInit ==
    /\ burnIsOpen = FALSE
    /\ burnIsLoading = FALSE
    /\ burnUserBalance \in BurnBalances
    /\ confirmText = <<>>
    /\ burnIsSubmitting = FALSE
    /\ burnError = Null
    /\ burnPending = FALSE
    /\ burnLog = <<>>

\* The parent opens the modal; the reset effect runs on the open transition.
BurnOpen ==
    /\ ~burnIsOpen
    /\ burnIsOpen' = TRUE
    /\ confirmText' = <<>>
    /\ burnError' = Null
    /\ UNCHANGED <<burnIsLoading, burnUserBalance, burnIsSubmitting,
                   burnPending, burnLog>>

\* onChange of the confirmation input
BurnSetConfirmText(t) ==
    /\ burnIsOpen
    /\ confirmText' = t
    /\ UNCHANGED <<burnIsOpen, burnIsLoading, burnUserBalance, burnIsSubmitting,
                   burnError, burnPending, burnLog>>

\* The parent changes its isLoading prop.
BurnSetParentLoading(b) ==
    /\ burnIsLoading # b
    /\ burnIsLoading' = b
    /\ UNCHANGED <<burnIsOpen, burnUserBalance, confirmText, burnIsSubmitting,
                   burnError, burnPending, burnLog>>

\* handleBurn, up to the await of onBurn
handleBurn ==
    IF ~isConfirmed \/ ~burnHasEnoughGas
    THEN UNCHANGED burnVars
    ELSE /\ burnIsSubmitting' = TRUE
         /\ burnError' = Null
         /\ burnPending' = TRUE
         /\ burnLog' = Append(burnLog, confirmText)
         /\ UNCHANGED <<burnIsOpen, burnIsLoading, burnUserBalance, confirmText>>

\* A click on the Burn button: a disabled button delivers no click.
BurnClickSubmit ==
    /\ burnIsOpen
    /\ ~burnSubmitDisabled
    /\ Len(burnLog) < MaxBurnCalls
    /\ handleBurn

\* onBurn resolves: onClose(), then finally
BurnResolve ==
    /\ burnPending
    /\ burnPending' = FALSE
    /\ burnIsOpen' = FALSE
    /\ burnIsSubmitting' = FALSE
    /\ UNCHANGED <<burnIsLoading, burnUserBalance, confirmText, burnError, burnLog>>

\* onBurn rejects: catch, then finally
BurnReject ==
    /\ burnPending
    /\ burnPending' = FALSE
    /\ burnError' = "Failed to burn NFT. Please try again."
    /\ burnIsSubmitting' = FALSE
    /\ UNCHANGED <<burnIsOpen, burnIsLoading, burnUserBalance, confirmText, burnLog>>

\* keydown Escape while the listener is attached
BurnEscape ==
    /\ burnIsOpen
    /\ ~burnIsSubmitting
    /\ burnIsOpen' = FALSE
    /\ UNCHANGED <<burnIsLoading, burnUserBalance, confirmText, burnIsSubmitting,
                   burnError, burnPending, burnLog>>

\* Cancel button, close button or backdrop: onClose unless loading
BurnCancel ==
    /\ burnIsOpen
    /\ ~burnLoading
    /\ burnIsOpen' = FALSE
    /\ UNCHANGED <<burnIsLoading, burnUserBalance, confirmText, burnIsSubmitting,
                   burnError, burnPending, burnLog>>

BurnNext ==
    \/ BurnOpen /\ UNCHANGED notBurn
    \/ (\E t \in ConfirmTexts : BurnSetConfirmText(t)) /\ UNCHANGED notBurn
    \/ (\E b \in BOOLEAN : BurnSetParentLoading(b)) /\ UNCHANGED notBurn
    \/ BurnClickSubmit /\ UNCHANGED notBurn
    \/ BurnResolve /\ UNCHANGED notBurn
    \/ BurnReject /\ UNCHANGED notBurn
    \/ BurnEscape /\ UNCHANGED notBurn
    \/ BurnCancel /\ UNCHANGED notBurn

(***************************************************************************)
(* ListNFTModal                                                            *)
(***************************************************************************)
\* const MARKETPLACE_FEE_PERCENT = 2.5, in tenths of a percent
MARKETPLACE_FEE_PERCENT == 25
\* const CREATOR_ROYALTY_PERCENT = 5, in tenths of a percent
CREATOR_ROYALTY_PERCENT == 50
\* const MIN_LISTING_PRICE = 0.001, in thousandths
MIN_LISTING_PRICE == 1
\* const estimatedGas = 0.001, in units of 0.0001 STX
listEstimatedGas == 10

durationOptions == <<1, 3, 7, 14, 30, 90>>

\* The fee breakdown, recomputed on every render. priceValue is in thousandths;
\* the three derived amounts are in millionths, so that a percentage given in
\* tenths of a percent of a price in thousandths is exact:
\*   priceValue * (PERCENT / 100)  =  thousandths * tenths-of-percent  millionths.
priceValue == NumOr(ParseFloat(price), 0)

\* A plausible slip: the fee taken as 25 percent.
marketplaceFeeTenfold == priceValue * MARKETPLACE_FEE_PERCENT * 10

marketplaceFee == priceValue * MARKETPLACE_FEE_PERCENT

creatorRoyalty == priceValue * CREATOR_ROYALTY_PERCENT

youReceive == priceValue * 1000 - marketplaceFee - creatorRoyalty

\* A plausible slip: a reserve price equal to the starting price let through.
listValidateReserveEqual ==
    (IF price = <<>> \/ JsLt(ParseFloat(price), MIN_LISTING_PRICE)
        THEN {"price"} ELSE {})
    \cup
    (IF /\ listingType = "auction"
        /\ reservePrice # <<>>
        /\ JsGt(ParseFloat(reservePrice), ParseFloat(price))
        THEN {"reservePrice"} ELSE {})
    \cup
    (IF /\ listingType = "auction"
        /\ buyNowPrice # <<>>
        /\ JsLe(ParseFloat(buyNowPrice), ParseFloat(price))
        THEN {"buyNowPrice"} ELSE {})
    \cup
    (IF listUserBalance < listEstimatedGas THEN {"balance"} ELSE {})

\* validate(): the keys of newErrors
listValidate ==
    (IF price = <<>> \/ JsLt(ParseFloat(price), MIN_LISTING_PRICE)
        THEN {"price"} ELSE {})
    \cup
    (IF /\ listingType = "auction"
        /\ reservePrice # <<>>
        /\ JsGe(ParseFloat(reservePrice), ParseFloat(price))
        THEN {"reservePrice"} ELSE {})
    \cup
    (IF /\ listingType = "auction"
        /\ buyNowPrice # <<>>
        /\ JsLe(ParseFloat(buyNowPrice), ParseFloat(price))
        THEN {"buyNowPrice"} ELSE {})
    \cup
    (IF listUserBalance < listEstimatedGas THEN {"balance"} ELSE {})

\* An optional number: <<>> for undefined, <<x>> for x
Optional(text) == IF text # <<>> THEN <<ParseFloat(text)>> ELSE <<>>

\* The ListingData that handleSubmit hands to onList
listData ==
    [ price        |-> ParseFloat(price),
      listingType  |-> listingType,
      duration     |-> duration,
      reservePrice |-> Optional(reservePrice),
      buyNowPrice  |-> Optional(buyNowPrice) ]

\* The values of the price fields: inputs of type "number", whose value is a
\* decimal literal or empty.
ListPriceTexts ==
    { <<>>, <<"1","0","0">>, <<"0">>, <<"0",".","0","0","1">>,
      <<"2",".","5">>, <<"-","1">> }
ListBoundTexts == { <<>>, <<"2",".","5">>, <<"2","0","0">> }
ListDurations == {durationOptions[1], durationOptions[3]}
ListBalances == {listEstimatedGas - 1, listEstimatedGas}
ListFloorPrices == { <<>>, <<100000>> }

ListInit ==
    /\ listIsOpen = FALSE
    /\ listUserBalance \in ListBalances
    /\ listFloorPrice \in ListFloorPrices
    /\ listingType = "fixed"
    /\ price = <<>>
    /\ duration = 7
    /\ reservePrice = <<>>
    /\ buyNowPrice = <<>>
    /\ listErrors = {}
    /\ listIsSubmitting = FALSE
    /\ listPending = FALSE
    /\ listCalls = 0

listProps == <<listUserBalance, listFloorPrice>>
listHistory == <<listPending, listCalls>>

\* The parent opens the modal; the reset effect runs on the open transition.
ListOpen ==
    /\ ~listIsOpen
    /\ listIsOpen' = TRUE
    /\ price' = IF listFloorPrice # <<>> THEN NumberToString(listFloorPrice[1]) ELSE <<>>
    /\ listingType' = "fixed"
    /\ duration' = 7
    /\ reservePrice' = <<>>
    /\ buyNowPrice' = <<>>
    /\ listErrors' = {}
    /\ UNCHANGED <<listProps, listIsSubmitting, listHistory>>

ListSetPrice(t) ==
    /\ listIsOpen
    /\ price' = t
    /\ UNCHANGED <<listIsOpen, listProps, listingType, duration, reservePrice,
                   buyNowPrice, listErrors, listIsSubmitting, listHistory>>

ListSetListingType(ty) ==
    /\ listIsOpen
    /\ listingType' = ty
    /\ UNCHANGED <<listIsOpen, listProps, price, duration, reservePrice,
                   buyNowPrice, listErrors, listIsSubmitting, listHistory>>

ListSetDuration(d) ==
    /\ listIsOpen
    /\ duration' = d
    /\ UNCHANGED <<listIsOpen, listProps, listingType, price, reservePrice,
                   buyNowPrice, listErrors, listIsSubmitting, listHistory>>

\* The reserve and buy-now inputs are rendered in auction mode only.
ListSetReservePrice(t) ==
    /\ listIsOpen
    /\ listingType = "auction"
    /\ reservePrice' = t
    /\ UNCHANGED <<listIsOpen, listProps, listingType, price, duration,
                   buyNowPrice, listErrors, listIsSubmitting, listHistory>>

ListSetBuyNowPrice(t) ==
    /\ listIsOpen
    /\ listingType = "auction"
    /\ buyNowPrice' = t
    /\ UNCHANGED <<listIsOpen, listProps, listingType, price, duration,
                   reservePrice, listErrors, listIsSubmitting, listHistory>>

\* handleSubmit, up to the await of onList
listHandleSubmit ==
    /\ listErrors' = listValidate
    /\ IF listValidate # {}
       THEN UNCHANGED <<listIsSubmitting, listHistory>>
       ELSE /\ listIsSubmitting' = TRUE
            /\ listPending' = TRUE
            /\ listCalls' = listCalls + 1
    /\ UNCHANGED <<listIsOpen, listProps, listingType, price, duration,
                   reservePrice, buyNowPrice>>

\* A click on "List for Sale": disabled={loading || !price}
ListClickSubmit ==
    /\ listIsOpen
    /\ ~listIsSubmitting
    /\ price # <<>>
    /\ listCalls < MaxListCalls
    /\ listHandleSubmit

\* onList resolves: onClose(), then finally
ListResolve ==
    /\ listPending
    /\ listPending' = FALSE
    /\ listIsOpen' = FALSE
    /\ listIsSubmitting' = FALSE
    /\ UNCHANGED <<listProps, listingType, price, duration, reservePrice,
                   buyNowPrice, listErrors, listCalls>>

\* onList rejects: catch, then finally
ListReject ==
    /\ listPending
    /\ listPending' = FALSE
    /\ listErrors' = {"submit"}
    /\ listIsSubmitting' = FALSE
    /\ UNCHANGED <<listIsOpen, listProps, listingType, price, duration,
                   reservePrice, buyNowPrice, listCalls>>

\* keydown Escape, Cancel button, close button or backdrop
ListClose ==
    /\ listIsOpen
    /\ ~listIsSubmitting
    /\ listIsOpen' = FALSE
    /\ UNCHANGED <<listProps, listingType, price, duration, reservePrice,
                   buyNowPrice, listErrors, listIsSubmitting, listHistory>>

ListNext ==
    \/ ListOpen /\ UNCHANGED notList
    \/ (\E t \in ListPriceTexts : ListSetPrice(t)) /\ UNCHANGED notList
    \/ (\E ty \in {"fixed", "auction"} : ListSetListingType(ty)) /\ UNCHANGED notList
    \/ (\E d \in ListDurations : ListSetDuration(d)) /\ UNCHANGED notList
    \/ (\E t \in ListBoundTexts : ListSetReservePrice(t)) /\ UNCHANGED notList
    \/ (\E t \in ListBoundTexts : ListSetBuyNowPrice(t)) /\ UNCHANGED notList
    \/ ListClickSubmit /\ UNCHANGED notList
    \/ ListResolve /\ UNCHANGED notList
    \/ ListReject /\ UNCHANGED notList
    \/ ListClose /\ UNCHANGED notList

(***************************************************************************)
(* CollectionFilter                                                        *)
(***************************************************************************)
\* const DEFAULT_PRICE_RANGE = [0, 1000], thousandths
DEFAULT_PRICE_RANGE == <<0, 1000 * 1000>>

RARITY_LEVELS == <<"Common", "Uncommon", "Rare", "Epic", "Legendary", "Mythic">>
STATUS_OPTIONS == <<"Buy Now", "On Auction", "New", "Has Offers">>

\* prop availableTraits: trait type |-> the values offered
availableTraits ==
    [ Background |-> <<"Blue", "Red">>, Eyes |-> <<"Laser">> ]

\* array.includes(x)
Includes(arr, x) == x \in Range(arr)

\* array.filter(e => e !== x)
Without(arr, x) == SelectSeq(arr, LAMBDA e : e # x)

\* A plausible slip: the value is added whether or not it is selected.
ToggleInAlwaysAppend(arr, x) == Append(arr, x)

\* includes(x) ? filter(e => e !== x) : [...arr, x]
ToggleIn(arr, x) == IF Includes(arr, x) THEN Without(arr, x) ELSE Append(arr, x)

\* { ...obj } with key k deleted
DeleteKey(obj, k) == [x \in DOMAIN obj \ {k} |-> obj[x]]

\* { ...obj, [k]: v }
SetKey(obj, k, v) == [x \in DOMAIN obj \cup {k} |-> IF x = k THEN v ELSE obj[x]]

EmptyObject == [x \in {} |-> <<>>]

\* toggleRarity: the FilterState handed to onFiltersChange
toggleRarity(f, rarity) ==
    [f EXCEPT !.rarities = ToggleIn(f.rarities, rarity)]

\* toggleStatus: the FilterState handed to onFiltersChange
toggleStatus(f, status) ==
    [f EXCEPT !.statuses = ToggleIn(f.statuses, status)]

\* A plausible slip: the emptied selection stays as a key.
toggleTraitValueKeepKey(f, traitType, value) ==
    LET currentValues == IF traitType \in DOMAIN f.traits THEN f.traits[traitType] ELSE <<>>
    IN  [f EXCEPT !.traits = SetKey(f.traits, traitType, ToggleIn(currentValues, value))]

\* toggleTraitValue: the FilterState handed to onFiltersChange
toggleTraitValue(f, traitType, value) ==
    LET currentValues == IF traitType \in DOMAIN f.traits THEN f.traits[traitType] ELSE <<>>
        newValues == ToggleIn(currentValues, value)
        newTraits == IF Len(newValues) = 0
                     THEN DeleteKey(f.traits, traitType)
                     ELSE SetKey(f.traits, traitType, newValues)
    IN  [f EXCEPT !.traits = newTraits]

\* A plausible slip: the two bounds committed in the order typed.
applyPriceRangeUnordered(f, minText, maxText, maxP) ==
    [f EXCEPT !.priceRange = <<NumOr(ParseFloat(minText), 0), NumOr(ParseFloat(maxText), maxP)>>]

\* applyPriceRange: the FilterState handed to onFiltersChange
applyPriceRange(f, minText, maxText, maxP) ==
    LET min == NumOr(ParseFloat(minText), 0)
        max == NumOr(ParseFloat(maxText), maxP)
    IN  [f EXCEPT !.priceRange = <<MathMin(min, max), MathMax(min, max)>>]

\* A plausible slip: the clear keeps the currency and sort order.
clearedFiltersKeepSort(f) ==
    [ priceRange |-> DEFAULT_PRICE_RANGE, rarities |-> <<>>, statuses |-> <<>>,
      traits |-> EmptyObject, currency |-> f.currency, sortBy |-> f.sortBy ]

\* clearAllFilters: the FilterState handed to onFiltersChange
clearedFilters(f) ==
    [ priceRange |-> DEFAULT_PRICE_RANGE, rarities |-> <<>>, statuses |-> <<>>,
      traits |-> EmptyObject, currency |-> "STX", sortBy |-> "recent" ]

\* activeFilterCount
activeFilterCount(f, maxP) ==
    (IF JsGt(f.priceRange[1], 0) \/ JsLt(f.priceRange[2], maxP) THEN 1 ELSE 0)
    + Len(f.rarities) + Len(f.statuses) + Cardinality(DOMAIN f.traits)

\* The inputs of the model: what the user clicks and types, what the parent passes.
FilterRarities == {RARITY_LEVELS[1]}
FilterStatuses == {STATUS_OPTIONS[1]}
FilterPriceTexts == { <<>>, <<"0">>, <<"5">>, <<"2","0">>, <<"a","b","c">> }
FilterMaxPrices == {1000 * 1000, 2000 * 1000}
\* The sort order the parent starts with (this component never edits it)
FilterSortOrders == {"price_asc"}

FilterInit ==
    /\ maxPrice \in FilterMaxPrices
    /\ \E sort \in FilterSortOrders :
         filters = [ priceRange |-> DEFAULT_PRICE_RANGE, rarities |-> <<>>,
                     statuses |-> <<>>, traits |-> EmptyObject,
                     currency |-> "STX", sortBy |-> sort ]
    /\ localPriceMin = NumberToString(filters.priceRange[1])
    /\ localPriceMax = NumberToString(filters.priceRange[2])
    /\ filterLastOp = "other"
    /\ toggleRun = <<>>
    /\ traitsAtRunStart = EmptyObject

noToggleRun == toggleRun' = <<>> /\ traitsAtRunStart' = EmptyObject

\* onChange of the Min input
FilterSetLocalPriceMin(t) ==
    /\ localPriceMin' = t
    /\ filterLastOp' = "other"
    /\ noToggleRun
    /\ UNCHANGED <<filters, maxPrice, localPriceMax>>

\* onChange of the Max input
FilterSetLocalPriceMax(t) ==
    /\ localPriceMax' = t
    /\ filterLastOp' = "other"
    /\ noToggleRun
    /\ UNCHANGED <<filters, maxPrice, localPriceMin>>

\* onBlur of either input, or the Apply button; the parent adopts the state
FilterApplyPriceRange ==
    /\ filters' = applyPriceRange(filters, localPriceMin, localPriceMax, maxPrice)
    /\ filterLastOp' = "applyPriceRange"
    /\ noToggleRun
    /\ UNCHANGED <<maxPrice, localPriceMin, localPriceMax>>

FilterToggleRarity(r) ==
    /\ filters' = toggleRarity(filters, r)
    /\ filterLastOp' = "other"
    /\ noToggleRun
    /\ UNCHANGED <<maxPrice, localPriceMin, localPriceMax>>

FilterToggleStatus(st) ==
    /\ filters' = toggleStatus(filters, st)
    /\ filterLastOp' = "other"
    /\ noToggleRun
    /\ UNCHANGED <<maxPrice, localPriceMin, localPriceMax>>

FilterToggleTraitValue(traitType, value) ==
    /\ filters' = toggleTraitValue(filters, traitType, value)
    /\ filterLastOp' = "toggleTraitValue"
    /\ IF toggleRun # <<>> /\ toggleRun[1] = traitType /\ toggleRun[2] = value
          /\ toggleRun[3] = 1
       THEN /\ toggleRun' = <<traitType, value, 2>>
            /\ UNCHANGED traitsAtRunStart
       ELSE /\ toggleRun' = <<traitType, value, 1>>
            /\ traitsAtRunStart' = filters.traits
    /\ UNCHANGED <<maxPrice, localPriceMin, localPriceMax>>

\* The STX / USD buttons
FilterSetCurrency(c) ==
    /\ filters' = [filters EXCEPT !.currency = c]
    /\ filterLastOp' = "other"
    /\ noToggleRun
    /\ UNCHANGED <<maxPrice, localPriceMin, localPriceMax>>

\* clearAllFilters; the parent adopts the state
FilterClearAllFilters ==
    /\ filters' = clearedFilters(filters)
    /\ localPriceMin' = <<"0">>
    /\ localPriceMax' = NumberToString(maxPrice)
    /\ filterLastOp' = "clearAllFilters"
    /\ noToggleRun
    /\ UNCHANGED maxPrice

FilterNext ==
    \/ (\E t \in FilterPriceTexts : FilterSetLocalPriceMin(t)) /\ UNCHANGED notFilter
    \/ (\E t \in FilterPriceTexts : FilterSetLocalPriceMax(t)) /\ UNCHANGED notFilter
    \/ FilterApplyPriceRange /\ UNCHANGED notFilter
    \/ (\E r \in FilterRarities : FilterToggleRarity(r)) /\ UNCHANGED notFilter
    \/ (\E st \in FilterStatuses : FilterToggleStatus(st)) /\ UNCHANGED notFilter
    \/ (\E traitType \in DOMAIN availableTraits :
          \E value \in Range(availableTraits[traitType]) :
             FilterToggleTraitValue(traitType, value)) /\ UNCHANGED notFilter
    \/ (\E c \in {"STX", "USD"} : FilterSetCurrency(c)) /\ UNCHANGED notFilter
    \/ FilterClearAllFilters /\ UNCHANGED notFilter

(***************************************************************************)
(* useCollection                                                           *)
(***************************************************************************)
\* const PAGE_SIZE = 24
PAGE_SIZE == 24
\* mockCollection.totalSupply
TotalSupply == 10000

\* The page that holds the last item of the collection
LastPage == (TotalSupply + PAGE_SIZE - 1) \div PAGE_SIZE

Max(a, b) == IF a >= b THEN a ELSE b
Min(a, b) == IF a <= b THEN a ELSE b

\* generateMockNFTs(count, offset): ids offset .. offset + count - 1. The objects
\* are new on every call (their other fields are random); fetch tells them apart.
generateMockNFTs(count, offset, fid) ==
    [i \in 1..count |-> [id |-> offset + i - 1, fetch |-> fid]]

\* fetchNFTs, after the await: offset, itemsToFetch and the new items
fetchOffset(f) == (f.pageNum - 1) * PAGE_SIZE
itemsToFetch(f) == Min(PAGE_SIZE, Max(0, f.capTotal - fetchOffset(f)))
newNfts(f) == generateMockNFTs(itemsToFetch(f), fetchOffset(f), f.fid)

\* A plausible slip: the new page put in front of the held sequence.
applyPagePrepend(prev, new, append) == IF append THEN new \o prev ELSE new

\* A plausible slip: the new page merged onto the held sequence in both modes.
applyPageAlwaysAppend(prev, new, append) == prev \o new

\* if (append) setNfts(prev => [...prev, ...newNfts]) else setNfts(newNfts)
applyPage(prev, new, append) == IF append THEN prev \o new ELSE new

\* A plausible slip: the guard of fetchMore without the hasMore test.
fetchMoreBlockedLoadingOnly == hookIsLoading

\* if (!hasMore || isLoading) return
fetchMoreBlocked == ~hasMore \/ hookIsLoading

\* The page effect, run after a render in which page or totalCount changed:
\* if (totalCount > 0) fetchNFTs(page, page > 1). The fetches it issues.
pageEffect(newPage, newTotal) ==
    IF (newPage # page \/ newTotal # totalCount) /\ newTotal > 0
    THEN {[fid |-> nextFid, pageNum |-> newPage, append |-> newPage > 1,
           capTotal |-> newTotal]}
    ELSE {}

\* The pages a consumer passes to setPage
HookPageInputs == {1, 2, LastPage}

HookInit ==
    /\ collection = Null
    /\ nfts = <<>>
    /\ hookIsLoading = TRUE
    /\ hookError = Null
    /\ page = 1
    /\ totalCount = 0
    /\ hasMore = TRUE
    \* the mount effects: fetchCollection() is awaiting; totalCount is 0, so no fetchNFTs
    /\ metaInFlight = <<[refresh |-> FALSE, capTotal |-> 0, tick |-> FALSE]>>
    /\ nftInFlight = {}
    /\ nextFid = 1
    /\ hookCalls = 0
    /\ hookLastOp = "mount"
    /\ fetchMoreSaw = <<>>
    /\ refreshSaw = <<>>
    /\ autoRefresh \in BOOLEAN

\* The consuming view is mounted
hookMounted == mounted = "useCollection"

\* fetchMore()
HookFetchMore ==
    /\ hookMounted
    /\ hookCalls < MaxHookCalls
    /\ hookCalls' = hookCalls + 1
    /\ hookLastOp' = "fetchMore"
    /\ fetchMoreSaw' = <<[hasMore |-> hasMore, isLoading |-> hookIsLoading,
                          inFlight |-> metaInFlight # <<>> \/ nftInFlight # {}]>>
    /\ IF fetchMoreBlocked
       THEN UNCHANGED <<hookState, metaInFlight, nftInFlight, nextFid>>
       ELSE /\ page' = page + 1
            /\ nftInFlight' = nftInFlight \cup pageEffect(page + 1, totalCount)
            /\ nextFid' = nextFid + Cardinality(pageEffect(page + 1, totalCount))
            /\ hookIsLoading' = (hookIsLoading \/ pageEffect(page + 1, totalCount) # {})
            /\ UNCHANGED <<collection, nfts, hookError, totalCount, hasMore, metaInFlight>>
    /\ UNCHANGED <<refreshSaw, autoRefresh>>

\* setPage(p), the state setter the hook returns
HookSetPage(p) ==
    /\ hookMounted
    /\ hookCalls < MaxHookCalls
    /\ hookCalls' = hookCalls + 1
    /\ hookLastOp' = "setPage"
    /\ page' = p
    /\ nftInFlight' = nftInFlight \cup pageEffect(p, totalCount)
    /\ nextFid' = nextFid + Cardinality(pageEffect(p, totalCount))
    /\ hookIsLoading' = (hookIsLoading \/ pageEffect(p, totalCount) # {})
    /\ fetchMoreSaw' = <<>>
    /\ UNCHANGED <<collection, nfts, hookError, totalCount, hasMore, metaInFlight,
                   refreshSaw, autoRefresh>>

\* refresh(), up to its first await: setPage(1), setNfts([]), fetchCollection()
\* called; the page effect runs if page changed.
HookRefresh ==
    /\ hookMounted
    /\ hookCalls < MaxHookCalls
    /\ hookCalls' = hookCalls + 1
    /\ hookLastOp' = "refresh"
    /\ refreshSaw' = <<[nextFid |-> nextFid,
                        append |-> \E f \in nftInFlight : f.append,
                        held |-> nfts # <<>>]>>
    /\ page' = 1
    /\ nfts' = <<>>
    /\ nftInFlight' = nftInFlight \cup pageEffect(1, totalCount)
    /\ metaInFlight' = Append(metaInFlight,
           [refresh |-> TRUE, capTotal |-> totalCount, tick |-> FALSE])
    /\ nextFid' = nextFid + Cardinality(pageEffect(1, totalCount))
    /\ hookIsLoading' = (hookIsLoading \/ pageEffect(1, totalCount) # {})
    /\ fetchMoreSaw' = <<>>
    /\ UNCHANGED <<collection, hookError, totalCount, hasMore, autoRefresh>>

\* A plausible slip: completions of fetchCollection calls taken in any order.
metaTimerDueAnyOrder(i) == TRUE

\* The 500 ms timers of the fetchCollection calls fire in the order of the calls.
metaTimerDue(i) == i = 1

\* The fetchCollection calls of the interval that await their timer
tickFetches == {i \in DOMAIN metaInFlight : metaInFlight[i].tick}

\* A tick of the auto-refresh interval: fetchCollection() called, up to its await
HookTick ==
    /\ hookMounted
    /\ autoRefresh
    /\ Cardinality(tickFetches) < MaxTickFetches
    /\ metaInFlight' = Append(metaInFlight,
           [refresh |-> FALSE, capTotal |-> 0, tick |-> TRUE])
    /\ hookLastOp' = "tick"
    /\ fetchMoreSaw' = <<>>
    /\ UNCHANGED <<hookState, nftInFlight, nextFid, hookCalls, refreshSaw, autoRefresh>>

\* The timer of a fetchCollection call fires (the calls all wait 500 ms, so their
\* timers fire in the order of the calls): setCollection, setTotalCount; the
\* page effect runs if totalCount changed; a refresh() goes on to fetchNFTs(1, false)
\* of the closure it was called in, up to that call's await.
HookMetaComplete(i) ==
    LET m      == metaInFlight[i]
        effect == pageEffect(page, TotalSupply)
        after  == IF m.refresh
                  THEN {[fid |-> nextFid + Cardinality(effect), pageNum |-> 1,
                         append |-> FALSE, capTotal |-> m.capTotal]}
                  ELSE {}
    IN  /\ hookMounted
        /\ metaTimerDue(i)
        /\ metaInFlight' = SubSeq(metaInFlight, 1, i - 1) \o
                           SubSeq(metaInFlight, i + 1, Len(metaInFlight))
        /\ collection' = "mockCollection"
        /\ totalCount' = TotalSupply
        /\ nftInFlight' = nftInFlight \cup effect \cup after
        /\ nextFid' = nextFid + Cardinality(effect) + Cardinality(after)
        /\ hookIsLoading' = (hookIsLoading \/ effect # {} \/ after # {})
        /\ hookLastOp' = IF m.tick THEN "tickComplete" ELSE "metaComplete"
        /\ fetchMoreSaw' = <<>>
        /\ UNCHANGED <<nfts, hookError, page, hasMore, hookCalls, refreshSaw,
                       autoRefresh>>

\* The 300 ms timers of the fetchNFTs calls fire in the order of the calls.
nftTimerDue(f) == \A o \in nftInFlight : f.fid <= o.fid

\* The timer of a fetchNFTs call fires: setNfts, setHasMore, finally setIsLoading(false)
HookNftComplete(f) ==
    /\ hookMounted
    /\ nftTimerDue(f)
    /\ nftInFlight' = nftInFlight \ {f}
    /\ nfts' = applyPage(nfts, newNfts(f), f.append)
    /\ hasMore' = (fetchOffset(f) + itemsToFetch(f) < f.capTotal)
    /\ hookIsLoading' = FALSE
    /\ hookLastOp' = "nftComplete"
    /\ fetchMoreSaw' = <<>>
    /\ UNCHANGED <<collection, hookError, page, totalCount, metaInFlight, nextFid,
                   hookCalls, refreshSaw, autoRefresh>>

\* The consuming view unmounts: the cleanup of the auto-refresh effect clears the
\* interval; the timers inside fetchCollection and fetchNFTs have no cleanup.
HookUnmount ==
    /\ hookMounted
    /\ mounted' = "unmounted"
    /\ hookLastOp' = "unmount"
    /\ fetchMoreSaw' = <<>>
    /\ UNCHANGED <<hookState, metaInFlight, nftInFlight, nextFid, hookCalls,
                   refreshSaw, autoRefresh>>

\* After the unmount the timer of a fetchCollection call fires: its state updates
\* go to a component that is gone and change nothing; a refresh() goes on to its
\* fetchNFTs(1, false), which starts another timer.
HookOrphanMetaTimer ==
    /\ mounted = "unmounted"
    /\ metaInFlight # <<>>
    /\ metaInFlight' = Tail(metaInFlight)
    /\ nftInFlight' = nftInFlight \cup
           (IF Head(metaInFlight).refresh
            THEN {[fid |-> nextFid, pageNum |-> 1, append |-> FALSE,
                   capTotal |-> Head(metaInFlight).capTotal]}
            ELSE {})
    /\ nextFid' = IF Head(metaInFlight).refresh THEN nextFid + 1 ELSE nextFid
    /\ hookLastOp' = "orphanTimer"
    /\ fetchMoreSaw' = <<>>
    /\ UNCHANGED <<hookState, hookCalls, refreshSaw, autoRefresh>>

\* After the unmount the timer of a fetchNFTs call fires
HookOrphanNftTimer(f) ==
    /\ mounted = "unmounted"
    /\ nftTimerDue(f)
    /\ nftInFlight' = nftInFlight \ {f}
    /\ hookLastOp' = "orphanTimer"
    /\ fetchMoreSaw' = <<>>
    /\ UNCHANGED <<hookState, metaInFlight, nextFid, hookCalls, refreshSaw,
                   autoRefresh>>

\* The variables of the other components, the mounted component apart
otherThanHook == <<burnVars, listVars, filterVars, xferVars, cancelVars, offerVars>>

\* The hook over the life of the consuming view, its unmount included
HookLifeNext ==
    \/ HookUnmount /\ UNCHANGED otherThanHook
    \/ HookOrphanMetaTimer /\ UNCHANGED notHook
    \/ (\E f \in nftInFlight : HookOrphanNftTimer(f)) /\ UNCHANGED notHook
    \/ HookFetchMore /\ UNCHANGED notHook
    \/ (\E p \in HookPageInputs : HookSetPage(p)) /\ UNCHANGED notHook
    \/ HookRefresh /\ UNCHANGED notHook
    \/ HookTick /\ UNCHANGED notHook
    \/ (\E i \in DOMAIN metaInFlight : HookMetaComplete(i)) /\ UNCHANGED notHook
    \/ (\E f \in nftInFlight : HookNftComplete(f)) /\ UNCHANGED notHook

\* The hook under a consumer that calls fetchMore and refresh only
HookCallsNext ==
    \/ HookFetchMore /\ UNCHANGED notHook
    \/ HookRefresh /\ UNCHANGED notHook
    \/ (\E i \in DOMAIN metaInFlight : HookMetaComplete(i)) /\ UNCHANGED notHook
    \/ (\E f \in nftInFlight : HookNftComplete(f)) /\ UNCHANGED notHook

HookNext ==
    \/ HookFetchMore /\ UNCHANGED notHook
    \/ (\E p \in HookPageInputs : HookSetPage(p)) /\ UNCHANGED notHook
    \/ HookRefresh /\ UNCHANGED notHook
    \/ HookTick /\ UNCHANGED notHook
    \/ (\E i \in DOMAIN metaInFlight : HookMetaComplete(i)) /\ UNCHANGED notHook
    \/ (\E f \in nftInFlight : HookNftComplete(f)) /\ UNCHANGED notHook

(***************************************************************************)
(* TransferNFTModal                                                        *)
(***************************************************************************)
\* const TRANSFER_GAS_ESTIMATE = 0.0005, in units of 0.0001 STX
TRANSFER_GAS_ESTIMATE == 5
\* const STACKS_ADDRESS_LENGTH = 41
STACKS_ADDRESS_LENGTH == 41

UpperAlnum == Range(UpperLetters) \cup Range(DigitChars)
DomainChars == Range(LowerLetters) \cup Range(UpperLetters) \cup Range(DigitChars) \cup {"-"}

\* STACKS_ADDRESS_REGEX.test(s): /^SP[A-Z0-9]{39}$/
MatchesStacksAddress(s) ==
    /\ Len(s) = 2 + 39
    /\ s[1] = "S"
    /\ s[2] = "P"
    /\ \A i \in 3..Len(s) : s[i] \in UpperAlnum

\* BNS_DOMAIN_REGEX.test(s): /^[a-z0-9-]+\.btc$/i
MatchesBnsDomain(s) ==
    /\ Len(s) >= 1 + 4
    /\ \A i \in 1..(Len(s) - 4) : s[i] \in DomainChars
    /\ s[Len(s) - 3] = "."
    /\ s[Len(s) - 2] \in {"b", "B"}
    /\ s[Len(s) - 1] \in {"t", "T"}
    /\ s[Len(s)] \in {"c", "C"}

\* address.startsWith('SP') && address.length === STACKS_ADDRESS_LENGTH
LooksLikeStacksAddress(s) ==
    /\ Len(s) = STACKS_ADDRESS_LENGTH
    /\ s[1] = "S"
    /\ s[2] = "P"

\* 'SP' + 'X'.repeat(39), what the mock resolution yields for every name
mockResolvedAddress == <<"S", "P">> \o Repeat("X", 39)

\* String.prototype.trim (white space is the space character here)
RECURSIVE Trim(_)
Trim(s) ==
    IF s = <<>> THEN s
    ELSE IF IsSpace(Head(s)) THEN Trim(Tail(s))
    ELSE IF IsSpace(s[Len(s)]) THEN Trim(SubSeq(s, 1, Len(s) - 1))
    ELSE s

xferHasEnoughGas == xferUserBalance >= TRANSFER_GAS_ESTIMATE

\* validate(): the keys of newErrors
xferValidate ==
    (IF recipient = <<>> \/ addressValid # "true" THEN {"recipient"} ELSE {})
    \cup
    (IF ~xferHasEnoughGas THEN {"gas"} ELSE {})

\* A plausible slip: the primary button left enabled during a submission.
xferPrimaryDisabledNotBusy == addressValid # "true" \/ ~xferHasEnoughGas

\* disabled={loading || !addressValid || !hasEnoughGas} on the primary button;
\* loading = isLoading || isSubmitting with the isLoading prop at its default, false
xferPrimaryDisabled == xferIsSubmitting \/ addressValid # "true" \/ ~xferHasEnoughGas

\* recipient: resolvedAddress || recipient
finalRecipient == IF resolvedAddress # <<>> THEN resolvedAddress ELSE recipient

\* The texts entered into the recipient field: empty, a name, an address, a text
\* of the length of an address that begins with SP, and a short text.
bnsName == <<"a", ".", "b", "t", "c">>
stacksAddress == <<"S", "P">> \o Repeat("A", 39)
looseAddress == <<"S", "P">> \o Repeat("!", 39)
RecipientTexts == { <<>>, bnsName, stacksAddress, looseAddress, <<"S", "P", "1">> }
MemoTexts == { <<>>, <<" ", "g", "m">> }
XferBalances == {TRANSFER_GAS_ESTIMATE - 1, TRANSFER_GAS_ESTIMATE}

XferInit ==
    /\ xferIsOpen = FALSE
    /\ xferUserBalance \in XferBalances
    /\ recipient = <<>>
    /\ memo = <<>>
    /\ isValidating = FALSE
    /\ addressValid = "null"
    /\ resolvedAddress = <<>>
    /\ xferErrors = {}
    /\ xferIsSubmitting = FALSE
    /\ showConfirmation = FALSE
    \* the debounce effect has run on mount
    /\ debounceTimer = TRUE
    /\ resolving = 0
    /\ xferPending = FALSE
    /\ recipientEdits = 0
    /\ xferCalls = 0
    /\ xferUntouched = TRUE
    /\ xferLastOp = "other"
    /\ xferLastCall = <<>>

xferHistory == <<xferPending, recipientEdits, xferCalls, xferLastCall>>

\* The parent opens the modal; the reset effect runs on the open transition, and
\* the debounce effect again if that changed recipient.
XferOpen ==
    /\ xferUntouched' = TRUE
    /\ xferLastOp' = "open"
    /\ ~xferIsOpen
    /\ xferIsOpen' = TRUE
    /\ recipient' = <<>>
    /\ memo' = <<>>
    /\ addressValid' = "null"
    /\ resolvedAddress' = <<>>
    /\ xferErrors' = {}
    /\ showConfirmation' = FALSE
    /\ debounceTimer' = (debounceTimer \/ recipient # <<>>)
    /\ UNCHANGED <<xferUserBalance, isValidating, xferIsSubmitting, resolving,
                   xferHistory>>

\* onChange of the recipient input, or a recent recipient picked (Input view)
XferSetRecipient(t) ==
    /\ xferUntouched' = FALSE
    /\ xferLastOp' = "other"
    /\ xferIsOpen
    /\ ~showConfirmation
    /\ t # recipient
    /\ recipientEdits < MaxRecipientEdits
    /\ recipientEdits' = recipientEdits + 1
    /\ recipient' = t
    /\ debounceTimer' = TRUE
    /\ UNCHANGED <<xferIsOpen, xferUserBalance, memo, isValidating, addressValid,
                   resolvedAddress, xferErrors, xferIsSubmitting, showConfirmation,
                   resolving, xferPending, xferCalls, xferLastCall>>

\* onChange of the memo input (Input view)
XferSetMemo(t) ==
    /\ xferUntouched' = FALSE
    /\ xferLastOp' = "other"
    /\ xferIsOpen
    /\ ~showConfirmation
    /\ memo' = t
    /\ UNCHANGED <<xferIsOpen, xferUserBalance, recipient, isValidating, addressValid,
                   resolvedAddress, xferErrors, xferIsSubmitting, showConfirmation,
                   debounceTimer, resolving, xferHistory>>

\* validateAddress(address), up to its await if it has one
validateAddress(address) ==
    IF address = <<>>
    THEN /\ addressValid' = "null"
         /\ resolvedAddress' = <<>>
         /\ UNCHANGED <<isValidating, resolving>>
    ELSE IF MatchesBnsDomain(address)
    THEN /\ isValidating' = TRUE
         /\ resolving' = resolving + 1
         /\ UNCHANGED <<addressValid, resolvedAddress>>
    ELSE IF MatchesStacksAddress(address) \/ LooksLikeStacksAddress(address)
    THEN /\ addressValid' = "true"
         /\ resolvedAddress' = <<>>
         /\ isValidating' = FALSE
         /\ UNCHANGED resolving
    ELSE /\ addressValid' = "false"
         /\ resolvedAddress' = <<>>
         /\ isValidating' = FALSE
         /\ UNCHANGED resolving

\* The debounce timer fires: validateAddress(recipient)
XferTimerFire ==
    /\ UNCHANGED xferUntouched
    /\ xferLastOp' = "other"
    /\ debounceTimer
    /\ debounceTimer' = FALSE
    /\ validateAddress(recipient)
    /\ UNCHANGED <<xferIsOpen, xferUserBalance, recipient, memo, xferErrors,
                   xferIsSubmitting, showConfirmation, xferHistory>>

\* The name resolution of a validateAddress call completes
XferResolutionDone ==
    /\ UNCHANGED xferUntouched
    /\ xferLastOp' = "other"
    /\ resolving > 0
    /\ resolving' = resolving - 1
    /\ resolvedAddress' = mockResolvedAddress
    /\ addressValid' = "true"
    /\ isValidating' = FALSE
    /\ UNCHANGED <<xferIsOpen, xferUserBalance, recipient, memo, xferErrors,
                   xferIsSubmitting, showConfirmation, debounceTimer, xferHistory>>

\* handleContinue
handleContinue ==
    /\ xferErrors' = xferValidate
    /\ showConfirmation' = (xferValidate = {})
    /\ UNCHANGED <<xferIsOpen, xferUserBalance, recipient, memo, isValidating,
                   addressValid, resolvedAddress, xferIsSubmitting, debounceTimer,
                   resolving, xferHistory>>

\* A press of Continue (the primary button of the Input view): handleContinue
\* runs unless the button is disabled
XferContinue ==
    /\ xferUntouched' = FALSE
    /\ xferLastOp' = "continue"
    /\ xferIsOpen
    /\ ~showConfirmation
    /\ IF xferPrimaryDisabled
       THEN UNCHANGED <<xferIsOpen, xferUserBalance, recipient, memo, isValidating,
                        addressValid, resolvedAddress, xferErrors, xferIsSubmitting,
                        showConfirmation, debounceTimer, resolving, xferHistory>>
       ELSE handleContinue

\* handleSubmit, up to the await of onTransfer
xferHandleSubmit ==
    /\ xferErrors' = xferValidate
    /\ IF xferValidate # {}
       THEN UNCHANGED <<xferIsSubmitting, xferPending, xferCalls, xferLastCall>>
       ELSE /\ xferIsSubmitting' = TRUE
            /\ xferPending' = TRUE
            /\ xferCalls' = xferCalls + 1
            /\ xferLastCall' = <<[typed |-> recipient, sent |-> finalRecipient]>>
    /\ UNCHANGED <<xferIsOpen, xferUserBalance, recipient, memo, isValidating,
                   addressValid, resolvedAddress, showConfirmation, debounceTimer,
                   resolving, recipientEdits>>

\* A click on Confirm Transfer (the primary button of the Confirmation view)
XferConfirm ==
    /\ xferUntouched' = FALSE
    /\ xferLastOp' = "confirm"
    /\ xferIsOpen
    /\ showConfirmation
    /\ ~xferPrimaryDisabled
    /\ xferCalls < MaxTransferCalls
    /\ xferHandleSubmit

\* onTransfer resolves: onClose(), then finally
XferResolve ==
    /\ UNCHANGED xferUntouched
    /\ xferLastOp' = "resolve"
    /\ xferPending
    /\ xferPending' = FALSE
    /\ xferIsOpen' = FALSE
    /\ xferIsSubmitting' = FALSE
    /\ UNCHANGED <<xferUserBalance, recipient, memo, isValidating, addressValid,
                   resolvedAddress, xferErrors, showConfirmation, debounceTimer,
                   resolving, recipientEdits, xferCalls, xferLastCall>>

\* A plausible slip: the failure handler leaving the view as it is.
showConfirmationAfterFailureKept == showConfirmation

\* setShowConfirmation(false) in the catch block of handleSubmit
showConfirmationAfterFailure == FALSE

\* onTransfer rejects: catch, then finally
XferReject ==
    /\ UNCHANGED xferUntouched
    /\ xferLastOp' = "reject"
    /\ xferPending
    /\ xferPending' = FALSE
    /\ xferErrors' = {"submit"}
    /\ showConfirmation' = showConfirmationAfterFailure
    /\ xferIsSubmitting' = FALSE
    /\ UNCHANGED <<xferIsOpen, xferUserBalance, recipient, memo, isValidating,
                   addressValid, resolvedAddress, debounceTimer, resolving,
                   recipientEdits, xferCalls, xferLastCall>>

\* The header back arrow (never disabled) or the footer Back button
XferBack ==
    /\ xferUntouched' = FALSE
    /\ xferLastOp' = "other"
    /\ xferIsOpen
    /\ showConfirmation
    /\ showConfirmation' = FALSE
    /\ UNCHANGED <<xferIsOpen, xferUserBalance, recipient, memo, isValidating,
                   addressValid, resolvedAddress, xferErrors, xferIsSubmitting,
                   debounceTimer, resolving, xferHistory>>

\* A plausible slip: the Escape handler without the isSubmitting test.
xferEscapeSuppressedNever == FALSE

\* e.key === 'Escape' && !isSubmitting
xferEscapeSuppressed == xferIsSubmitting

\* keydown Escape while the listener is attached
XferEscape ==
    /\ xferUntouched' = FALSE
    /\ xferLastOp' = "escape"
    /\ xferIsOpen
    /\ IF xferEscapeSuppressed
       THEN UNCHANGED <<xferIsOpen, showConfirmation>>
       ELSE IF showConfirmation
       THEN showConfirmation' = FALSE /\ UNCHANGED xferIsOpen
       ELSE xferIsOpen' = FALSE /\ UNCHANGED showConfirmation
    /\ UNCHANGED <<xferUserBalance, recipient, memo, isValidating, addressValid,
                   resolvedAddress, xferErrors, xferIsSubmitting, debounceTimer,
                   resolving, xferHistory>>

\* Cancel button, close button or backdrop: onClose unless loading
XferCancel ==
    /\ xferUntouched' = FALSE
    /\ xferLastOp' = "other"
    /\ xferIsOpen
    /\ ~xferIsSubmitting
    /\ xferIsOpen' = FALSE
    /\ UNCHANGED <<xferUserBalance, recipient, memo, isValidating, addressValid,
                   resolvedAddress, xferErrors, xferIsSubmitting, showConfirmation,
                   debounceTimer, resolving, xferHistory>>

XferNext ==
    \/ XferOpen /\ UNCHANGED notXfer
    \/ (\E t \in RecipientTexts : XferSetRecipient(t)) /\ UNCHANGED notXfer
    \/ (\E t \in MemoTexts : XferSetMemo(t)) /\ UNCHANGED notXfer
    \/ XferTimerFire /\ UNCHANGED notXfer
    \/ XferResolutionDone /\ UNCHANGED notXfer
    \/ XferContinue /\ UNCHANGED notXfer
    \/ XferConfirm /\ UNCHANGED notXfer
    \/ XferResolve /\ UNCHANGED notXfer
    \/ XferReject /\ UNCHANGED notXfer
    \/ XferBack /\ UNCHANGED notXfer
    \/ XferEscape /\ UNCHANGED notXfer
    \/ XferCancel /\ UNCHANGED notXfer

(***************************************************************************)
(* CancelListingModal                                                      *)
(***************************************************************************)
\* const CANCEL_GAS_ESTIMATE = 0.0004, in units of 0.0001 STX
CANCEL_GAS_ESTIMATE == 4

cancelHasEnoughGas == cancelUserBalance >= CANCEL_GAS_ESTIMATE

\* loading = isLoading || isSubmitting, the isLoading prop at its default, false
cancelLoading == cancelIsSubmitting

CancelBalances == {CANCEL_GAS_ESTIMATE - 1, CANCEL_GAS_ESTIMATE}

CancelInit ==
    /\ cancelIsOpen = FALSE
    /\ cancelUserBalance \in CancelBalances
    /\ cancelIsSubmitting = FALSE
    /\ cancelError = Null
    /\ cancelPending = FALSE
    /\ cancelCalls = 0

\* The parent opens the modal; the reset effect runs on the open transition.
CancelOpen ==
    /\ ~cancelIsOpen
    /\ cancelIsOpen' = TRUE
    /\ cancelError' = Null
    /\ UNCHANGED <<cancelUserBalance, cancelIsSubmitting, cancelPending, cancelCalls>>

\* handleCancel, up to the await of onCancel
handleCancel ==
    IF ~cancelHasEnoughGas
    THEN UNCHANGED cancelVars
    ELSE /\ cancelIsSubmitting' = TRUE
         /\ cancelError' = Null
         /\ cancelPending' = TRUE
         /\ cancelCalls' = cancelCalls + 1
         /\ UNCHANGED <<cancelIsOpen, cancelUserBalance>>

\* A click on "Cancel Listing": disabled={loading || !hasEnoughGas}
CancelClickSubmit ==
    /\ cancelIsOpen
    /\ ~cancelLoading
    /\ cancelHasEnoughGas
    /\ cancelCalls < MaxCancelCalls
    /\ handleCancel

\* onCancel resolves: onClose(), then finally
CancelResolve ==
    /\ cancelPending
    /\ cancelPending' = FALSE
    /\ cancelIsOpen' = FALSE
    /\ cancelIsSubmitting' = FALSE
    /\ UNCHANGED <<cancelUserBalance, cancelError, cancelCalls>>

\* onCancel rejects: catch, then finally
CancelReject ==
    /\ cancelPending
    /\ cancelPending' = FALSE
    /\ cancelError' = "Failed to cancel listing. Please try again."
    /\ cancelIsSubmitting' = FALSE
    /\ UNCHANGED <<cancelIsOpen, cancelUserBalance, cancelCalls>>

\* keydown Escape, "Keep Listed" button, close button or backdrop
CancelClose ==
    /\ cancelIsOpen
    /\ ~cancelLoading
    /\ cancelIsOpen' = FALSE
    /\ UNCHANGED <<cancelUserBalance, cancelIsSubmitting, cancelError, cancelPending,
                   cancelCalls>>

CancelNext ==
    \/ CancelOpen /\ UNCHANGED notCancel
    \/ CancelClickSubmit /\ UNCHANGED notCancel
    \/ CancelResolve /\ UNCHANGED notCancel
    \/ CancelReject /\ UNCHANGED notCancel
    \/ CancelClose /\ UNCHANGED notCancel

(***************************************************************************)
(* MakeOfferModal                                                          *)
(***************************************************************************)
\* const MIN_OFFER_PERCENT = 10
MIN_OFFER_PERCENT == 10
\* const DEFAULT_EXPIRATION = 7
DEFAULT_EXPIRATION == 7

expirationOptions == <<1, 3, 7, 14, 30>>
quickOfferPercentages == <<75, 90, 100, 110>>

\* a || b || 0 on two optional numbers: undefined, NaN and 0 are falsy
referencePrice ==
    IF offerCurrentPrice # <<>> /\ NumOr(offerCurrentPrice[1], 0) # 0
    THEN offerCurrentPrice[1]
    ELSE IF offerFloorPrice # <<>> /\ NumOr(offerFloorPrice[1], 0) # 0
    THEN offerFloorPrice[1]
    ELSE 0

\* parseFloat(amount) || 0
offerAmount == NumOr(ParseFloat(amount), 0)

\* offerAmount <= userBalance || offerAmount <= wstxBalance
hasEnoughBalance == offerAmount <= offerUserBalance \/ offerAmount <= offerWstxBalance

totalBalance == offerUserBalance + offerWstxBalance

\* (referencePrice * percent) / 100; exact for the modelled reference prices
quickAmount(percent) == (referencePrice * percent) \div 100

\* Number.prototype.toFixed(4) of a non-negative number given in thousandths
ToFixed4(x) ==
    NatToString(x \div 1000)
    \o <<".", DigitChars[((x \div 100) % 10) + 1], DigitChars[((x \div 10) % 10) + 1],
         DigitChars[(x % 10) + 1], "0">>

\* A plausible slip: the minimum-offer test left out of validate.
offerBelowMinimumNever == FALSE

\* referencePrice > 0 && offerAmount < referencePrice * (MIN_OFFER_PERCENT / 100)
offerBelowMinimum ==
    referencePrice > 0 /\ offerAmount * 100 < referencePrice * MIN_OFFER_PERCENT

\* validate(): the keys of newErrors
offerValidate ==
    IF amount = <<>> \/ offerAmount <= 0 THEN {"amount"}
    ELSE IF ~hasEnoughBalance THEN {"amount"}
    ELSE IF offerBelowMinimum THEN {"amount"}
    ELSE {}

\* The OfferData that handleSubmit hands to onOffer
offerData ==
    [ amount         |-> offerAmount,
      expirationDays |-> expiration,
      message        |-> IF Trim(message) # <<>> THEN <<Trim(message)>> ELSE <<>> ]

\* loading = isLoading || isSubmitting, the isLoading prop at its default, false
offerLoading == offerIsSubmitting

\* disabled={loading || !amount || offerAmount <= 0} on the submit button
offerSubmitDisabled == offerLoading \/ amount = <<>> \/ offerAmount <= 0

\* The texts typed into the amount field (the input is of type number)
OfferAmountTexts ==
    { <<>>, <<"0">>, <<"0", ".", "5">>, <<"5">>, <<"9">> }
OfferExpirations == {expirationOptions[1], expirationOptions[5]}
OfferMessages == { <<>>, <<" ", "h", "i">> }
\* userBalance and wstxBalance
OfferBalances == { <<0, 0>>, <<8000, 0>>, <<6000, 6000>> }
\* nft.currentPrice and nft.floorPrice
OfferPrices == { <<<<>>, <<>>>>, <<<<>>, <<10000>>>>, <<<<20000>>, <<10000>>>> }

OfferInit ==
    /\ offerIsOpen = FALSE
    /\ \E b \in OfferBalances : offerUserBalance = b[1] /\ offerWstxBalance = b[2]
    /\ \E p \in OfferPrices : offerCurrentPrice = p[1] /\ offerFloorPrice = p[2]
    /\ amount = <<>>
    /\ expiration = DEFAULT_EXPIRATION
    /\ message = <<>>
    /\ offerErrors = {}
    /\ offerIsSubmitting = FALSE
    /\ offerPending = FALSE
    /\ offerCalls = 0
    /\ offerLastCall = <<>>

offerProps == <<offerUserBalance, offerWstxBalance, offerCurrentPrice, offerFloorPrice>>
offerHistory == <<offerPending, offerCalls, offerLastCall>>

\* The parent opens the modal; the reset effect runs on the open transition.
OfferOpen ==
    /\ ~offerIsOpen
    /\ offerIsOpen' = TRUE
    /\ amount' = <<>>
    /\ expiration' = DEFAULT_EXPIRATION
    /\ message' = <<>>
    /\ offerErrors' = {}
    /\ UNCHANGED <<offerProps, offerIsSubmitting, offerHistory>>

\* onChange of the amount input
OfferSetAmount(t) ==
    /\ offerIsOpen
    /\ amount' = t
    /\ UNCHANGED <<offerIsOpen, offerProps, expiration, message, offerErrors,
                   offerIsSubmitting, offerHistory>>

\* setQuickOffer(percent), from a quick-offer button: rendered when
\* referencePrice > 0, disabled when quickAmount > totalBalance
OfferSetQuickOffer(percent) ==
    /\ offerIsOpen
    /\ referencePrice > 0
    /\ ~(quickAmount(percent) > totalBalance)
    /\ amount' = ToFixed4(quickAmount(percent))
    /\ UNCHANGED <<offerIsOpen, offerProps, expiration, message, offerErrors,
                   offerIsSubmitting, offerHistory>>

\* A click on an expiration option
OfferSetExpiration(d) ==
    /\ offerIsOpen
    /\ expiration' = d
    /\ UNCHANGED <<offerIsOpen, offerProps, amount, message, offerErrors,
                   offerIsSubmitting, offerHistory>>

\* onChange of the message input
OfferSetMessage(t) ==
    /\ offerIsOpen
    /\ message' = t
    /\ UNCHANGED <<offerIsOpen, offerProps, amount, expiration, offerErrors,
                   offerIsSubmitting, offerHistory>>

\* handleSubmit, up to the await of onOffer
offerHandleSubmit ==
    /\ offerErrors' = offerValidate
    /\ IF offerValidate # {}
       THEN UNCHANGED <<offerIsSubmitting, offerHistory>>
       ELSE /\ offerIsSubmitting' = TRUE
            /\ offerPending' = TRUE
            /\ offerCalls' = offerCalls + 1
            /\ offerLastCall' = <<offerData>>
    /\ UNCHANGED <<offerIsOpen, offerProps, amount, expiration, message>>

\* A click on "Make Offer": a disabled button delivers no click
OfferClickSubmit ==
    /\ offerIsOpen
    /\ ~offerSubmitDisabled
    /\ offerCalls < MaxOfferCalls
    /\ offerHandleSubmit

\* onOffer resolves: onClose(), then finally
OfferResolve ==
    /\ offerPending
    /\ offerPending' = FALSE
    /\ offerIsOpen' = FALSE
    /\ offerIsSubmitting' = FALSE
    /\ UNCHANGED <<offerProps, amount, expiration, message, offerErrors, offerCalls,
                   offerLastCall>>

\* A plausible slip: the failure handler resetting the form as the open effect does.
OfferRejectResetsForm ==
    /\ offerPending
    /\ offerPending' = FALSE
    /\ offerErrors' = {"submit"}
    /\ offerIsSubmitting' = FALSE
    /\ amount' = <<>>
    /\ expiration' = DEFAULT_EXPIRATION
    /\ message' = <<>>
    /\ UNCHANGED <<offerIsOpen, offerProps, offerCalls, offerLastCall>>

\* onOffer rejects: catch, then finally
OfferReject ==
    /\ offerPending
    /\ offerPending' = FALSE
    /\ offerErrors' = {"submit"}
    /\ offerIsSubmitting' = FALSE
    /\ UNCHANGED <<offerIsOpen, offerProps, amount, expiration, message, offerCalls,
                   offerLastCall>>

\* keydown Escape, Cancel button, close button or backdrop
OfferClose ==
    /\ offerIsOpen
    /\ ~offerLoading
    /\ offerIsOpen' = FALSE
    /\ UNCHANGED <<offerProps, amount, expiration, message, offerErrors,
                   offerIsSubmitting, offerHistory>>

OfferNext ==
    \/ OfferOpen /\ UNCHANGED notOffer
    \/ (\E t \in OfferAmountTexts : OfferSetAmount(t)) /\ UNCHANGED notOffer
    \/ (\E i \in DOMAIN quickOfferPercentages :
            OfferSetQuickOffer(quickOfferPercentages[i])) /\ UNCHANGED notOffer
    \/ (\E d \in OfferExpirations : OfferSetExpiration(d)) /\ UNCHANGED notOffer
    \/ (\E t \in OfferMessages : OfferSetMessage(t)) /\ UNCHANGED notOffer
    \/ OfferClickSubmit /\ UNCHANGED notOffer
    \/ OfferResolve /\ UNCHANGED notOffer
    \/ OfferReject /\ UNCHANGED notOffer
    \/ OfferClose /\ UNCHANGED notOffer

(***************************************************************************)
(* Specifications                                                          *)
(***************************************************************************)
\* The constructed state of a component that a specification leaves alone
BurnIdle == BurnInit /\ burnUserBalance = BURN_GAS_ESTIMATE
ListIdle == ListInit /\ listUserBalance = listEstimatedGas /\ listFloorPrice = <<>>

FilterIdle ==
    /\ FilterInit
    /\ maxPrice = DEFAULT_PRICE_RANGE[2]

HookIdle == HookInit /\ ~autoRefresh
XferIdle == XferInit /\ xferUserBalance = TRANSFER_GAS_ESTIMATE
CancelIdle == CancelInit /\ cancelUserBalance = CANCEL_GAS_ESTIMATE

OfferIdle ==
    /\ OfferInit
    /\ offerUserBalance = 0 /\ offerWstxBalance = 0
    /\ offerCurrentPrice = <<>> /\ offerFloorPrice = <<>>

InitBurn ==
    /\ mounted = "BurnNFTModal"
    /\ BurnInit /\ ListIdle /\ FilterIdle /\ HookIdle /\ XferIdle /\ CancelIdle /\ OfferIdle

InitList ==
    /\ mounted = "ListNFTModal"
    /\ ListInit /\ BurnIdle /\ FilterIdle /\ HookIdle /\ XferIdle /\ CancelIdle /\ OfferIdle

InitFilter ==
    /\ mounted = "CollectionFilter"
    /\ FilterInit /\ BurnIdle /\ ListIdle /\ HookIdle /\ XferIdle /\ CancelIdle /\ OfferIdle

InitHook ==
    /\ mounted = "useCollection"
    /\ HookInit /\ BurnIdle /\ ListIdle /\ FilterIdle /\ XferIdle /\ CancelIdle /\ OfferIdle

InitXfer ==
    /\ mounted = "TransferNFTModal"
    /\ XferInit /\ BurnIdle /\ ListIdle /\ FilterIdle /\ HookIdle /\ CancelIdle /\ OfferIdle

InitCancel ==
    /\ mounted = "CancelListingModal"
    /\ CancelInit /\ BurnIdle /\ ListIdle /\ FilterIdle /\ HookIdle /\ XferIdle /\ OfferIdle

InitOffer ==
    /\ mounted = "MakeOfferModal"
    /\ OfferInit /\ BurnIdle /\ ListIdle /\ FilterIdle /\ HookIdle /\ XferIdle /\ CancelIdle

\* A page that mounts one of the modals with a submission to an external action
InitModals == InitBurn \/ InitCancel \/ InitList \/ InitOffer

ModalsNext ==
    \/ mounted = "BurnNFTModal" /\ BurnNext
    \/ mounted = "CancelListingModal" /\ CancelNext
    \/ mounted = "ListNFTModal" /\ ListNext
    \/ mounted = "MakeOfferModal" /\ OfferNext

\* A page that mounts any one of the five modals
InitAllModals == InitBurn \/ InitCancel \/ InitList \/ InitOffer \/ InitXfer

AllModalsNext ==
    \/ mounted = "BurnNFTModal" /\ BurnNext
    \/ mounted = "CancelListingModal" /\ CancelNext
    \/ mounted = "ListNFTModal" /\ ListNext
    \/ mounted = "MakeOfferModal" /\ OfferNext
    \/ mounted = "TransferNFTModal" /\ XferNext

SpecAllModals == InitAllModals /\ [][AllModalsNext]_vars

SpecCancel == InitCancel /\ [][CancelNext]_vars

SpecOffer == InitOffer /\ [][OfferNext]_vars

SpecModals == InitModals /\ [][ModalsNext]_vars

SpecXfer == InitXfer /\ [][XferNext]_vars

SpecHook == InitHook /\ [][HookNext]_vars

SpecHookCalls == InitHook /\ [][HookCallsNext]_vars

SpecHookLife == InitHook /\ [][HookLifeNext]_vars

SpecFilter == InitFilter /\ [][FilterNext]_vars

SpecBurn == InitBurn /\ [][BurnNext]_vars

SpecList == InitList /\ [][ListNext]_vars

(***************************************************************************)
(* Properties                                                              *)
(***************************************************************************)
\* Two trait mappings with the same keys and, per key, the same selected values
SameContent(a, b) ==
    /\ DOMAIN a = DOMAIN b
    /\ \A k \in DOMAIN a : Range(a[k]) = Range(b[k])

\* Two characters that are equal or the two cases of one letter
SameLetter(c, d) ==
    \/ c = d
    \/ \E k \in DOMAIN LowerLetters : {c, d} = {LowerLetters[k], UpperLetters[k]}

\* Two strings that are equal up to the case of their letters
EqualsIgnoreCase(a, b) ==
    /\ Len(a) = Len(b)
    /\ \A i \in DOMAIN a : SameLetter(a[i], b[i])

\* C1 (as claimed): at every onTransfer invocation, a recipient field that matches
\* the address pattern is handed over as typed, and one that matches the domain
\* pattern is handed over as the address resolved for it.
C1_TransferRecipient ==
    \A i \in DOMAIN xferLastCall :
        /\ MatchesStacksAddress(xferLastCall[i].typed)
             => xferLastCall[i].sent = xferLastCall[i].typed
        /\ MatchesBnsDomain(xferLastCall[i].typed)
             => xferLastCall[i].sent = mockResolvedAddress

\* The state of the transfer modal that its user and its parent observe
xferState == <<xferIsOpen, recipient, memo, isValidating, addressValid, resolvedAddress,
               xferErrors, xferIsSubmitting, showConfirmation, xferPending>>

\* C11 (as claimed): a press of Continue brings up the Confirmation view only if
\* the address verdict is valid and the balance covers the fee; a press in any
\* other case records a recipient or gas error and stays in the Input view.
C11_ContinueGate ==
    [][ xferLastOp' = "continue" =>
          /\ showConfirmation' => (addressValid = "true" /\ xferHasEnoughGas)
          /\ ~(addressValid = "true" /\ xferHasEnoughGas)
               => (~showConfirmation' /\ xferErrors' \cap {"recipient", "gas"} # {}) ]_vars

\* C12: when onTransfer fails the modal is in the Input view with the submit
\* error set and the busy flag cleared, still open, recipient and memo unchanged.
C12_TransferFailure ==
    [][ xferLastOp' = "reject" =>
          /\ ~showConfirmation'
          /\ "submit" \in xferErrors'
          /\ ~xferIsSubmitting'
          /\ xferIsOpen /\ xferIsOpen'
          /\ recipient' = recipient
          /\ memo' = memo ]_vars

\* C12 witness: onTransfer has just failed on a filled-in form.
C12_Witness ==
    /\ xferLastOp = "reject"
    /\ recipient # <<>>
    /\ memo # <<>>
    /\ xferErrors = {"submit"}

\* C13: when onBurn, onCancel, onList or onOffer fails, the modal holds its
\* submission error, is no longer busy, stays open, and its draft fields are as
\* they were.
C13_FailureKeepsDraft ==
    [][ /\ BurnReject =>
            /\ burnError' # Null /\ ~burnIsSubmitting'
            /\ burnIsOpen /\ burnIsOpen'
            /\ confirmText' = confirmText
        /\ CancelReject =>
            /\ cancelError' # Null /\ ~cancelIsSubmitting'
            /\ cancelIsOpen /\ cancelIsOpen'
        /\ ListReject =>
            /\ "submit" \in listErrors' /\ ~listIsSubmitting'
            /\ listIsOpen /\ listIsOpen'
            /\ <<price, listingType, duration, reservePrice, buyNowPrice>>'
                 = <<price, listingType, duration, reservePrice, buyNowPrice>>
        /\ OfferReject =>
            /\ "submit" \in offerErrors' /\ ~offerIsSubmitting'
            /\ offerIsOpen /\ offerIsOpen'
            /\ <<amount, expiration, message>>' = <<amount, expiration, message>> ]_vars

\* C13 witness: onOffer has failed on a filled-in offer form, which is open,
\* editable and holds the draft.
C13_Witness ==
    /\ mounted = "MakeOfferModal"
    /\ offerIsOpen
    /\ offerErrors = {"submit"}
    /\ ~offerIsSubmitting
    /\ ~offerPending
    /\ offerLastCall # <<>>
    /\ offerLastCall[1] = offerData
    /\ message # <<>>
    /\ expiration # DEFAULT_EXPIRATION

\* The values the transfer form has after the reset on opening
xferFormInitial ==
    /\ recipient = <<>>
    /\ memo = <<>>
    /\ addressValid = "null"
    /\ resolvedAddress = <<>>
    /\ xferErrors = {}
    /\ ~showConfirmation

\* C14 (as claimed): from each opening of the transfer modal until the user's first
\* input, recipient and memo are empty, there is no verdict, no resolved address
\* and no error, and the Input view shows.
C14_ResetOnOpen == (xferIsOpen /\ xferUntouched) => xferFormInitial

\* C15: Escape in the Confirmation view goes back to the Input view and leaves
\* the modal open; in the Input view it closes the modal; during a submission
\* it changes nothing.
C15_EscapeBehaviour ==
    [][ xferLastOp' = "escape" =>
          IF xferIsSubmitting THEN UNCHANGED xferState
          ELSE IF showConfirmation THEN ~showConfirmation' /\ xferIsOpen'
          ELSE ~xferIsOpen' ]_vars

\* C15 witness: Escape was pressed while a submission was in progress.
C15_Witness ==
    /\ xferLastOp = "escape"
    /\ xferIsSubmitting
    /\ xferPending
    /\ xferIsOpen

\* A step that is a call of the named hook operation
HookCallStep(op) == hookCalls' = hookCalls + 1 /\ hookLastOp' = op

\* C2: refresh() sets page to 1 and empties nfts; and when a first page fetched
\* after a refresh is applied, it replaces the sequence: every entry then held
\* comes from that fetch, none from an earlier one.
C2_RefreshResets ==
    [][ /\ HookCallStep("refresh") => (page' = 1 /\ nfts' = <<>>)
        /\ \A f \in nftInFlight :
              ( /\ f \notin nftInFlight'
                /\ refreshSaw # <<>>
                /\ f.fid >= refreshSaw[1].nextFid
                /\ f.pageNum = 1 )
              => \A i \in DOMAIN nfts' : nfts'[i].fetch = f.fid
      ]_vars

\* C2 witness: refresh() was called while entries were held and an append fetch
\* was in flight, and a first page fetched after it has just been applied.
C2_Witness ==
    /\ refreshSaw # <<>>
    /\ refreshSaw[1].append
    /\ refreshSaw[1].held
    /\ hookLastOp = "nftComplete"
    /\ page = 1
    /\ Len(nfts) = PAGE_SIZE
    /\ \A i \in DOMAIN nfts : nfts[i].fetch >= refreshSaw[1].nextFid

\* C3: a fetchMore call made while hasMore is false changes none of page, nfts,
\* isLoading, hasMore, totalCount, error, and issues no fetch.
C3_FetchMoreNoOpWithoutMore ==
    [][ (HookCallStep("fetchMore") /\ ~hasMore)
        => UNCHANGED <<hookState, metaInFlight, nftInFlight, nextFid>> ]_vars

\* C3 witness: fetchMore was called with hasMore false and nothing loading.
C3_Witness ==
    /\ hookLastOp = "fetchMore"
    /\ ~fetchMoreSaw[1].hasMore
    /\ ~fetchMoreSaw[1].isLoading
    /\ ~fetchMoreSaw[1].inFlight

\* C16: a fetchMore call made with hasMore true and nothing in flight advances
\* page by one, leaves nfts as it is and issues one append-mode fetch of the new
\* page; an append-mode fetch that completes leaves the held items in place and
\* puts the items of its page after them.
C16_FetchMoreAppends ==
    [][ /\ (HookCallStep("fetchMore") /\ hasMore /\ metaInFlight = <<>> /\ nftInFlight = {})
            => /\ page' = page + 1
               /\ nfts' = nfts
               /\ \E f \in nftInFlight' :
                     /\ nftInFlight' = {f}
                     /\ f.pageNum = page + 1
                     /\ f.append
        /\ \A f \in nftInFlight : (f \notin nftInFlight' /\ f.append)
            => /\ Len(nfts') = Len(nfts) + Min(PAGE_SIZE, Max(0, f.capTotal - (f.pageNum - 1) * PAGE_SIZE))
               /\ \A i \in DOMAIN nfts : nfts'[i] = nfts[i]
               /\ \A i \in (Len(nfts) + 1)..Len(nfts') :
                     nfts'[i].id = (f.pageNum - 1) * PAGE_SIZE + (i - Len(nfts)) - 1 ]_vars

\* C16 witness: fetchMore was called on the loaded first page with nothing in
\* flight, and the second page is being fetched in append mode.
C16_Witness ==
    /\ hookLastOp = "fetchMore"
    /\ fetchMoreSaw[1].hasMore
    /\ ~fetchMoreSaw[1].inFlight
    /\ page = 2
    /\ Len(nfts) = PAGE_SIZE
    /\ \E f \in nftInFlight : f.pageNum = 2 /\ f.append

\* C17: a tick of the auto-refresh interval issues one collection-metadata fetch
\* and nothing else: neither the tick nor the completion of the fetch it issued
\* issues an NFT listing fetch or changes nfts, page or hasMore.
C17_TickMetadataOnly ==
    [][ /\ (hookLastOp' = "tick" /\ Len(metaInFlight') = Len(metaInFlight) + 1)
            => /\ autoRefresh
               /\ SubSeq(metaInFlight', 1, Len(metaInFlight)) = metaInFlight
               /\ nftInFlight' = nftInFlight
               /\ <<nfts, page, hasMore>>' = <<nfts, page, hasMore>>
        /\ (Cardinality(tickFetches') < Cardinality(tickFetches))
            => /\ nftInFlight' = nftInFlight
               /\ <<nfts, page, hasMore>>' = <<nfts, page, hasMore>> ]_vars

\* C17 witness: a tick came while a page was held and a listing fetch was in
\* flight, and the metadata fetch it issued has completed.
C17_Witness ==
    /\ autoRefresh
    /\ hookLastOp = "tickComplete"
    /\ nfts # <<>>
    /\ nftInFlight # {}

\* C18: in auction mode onList is invoked only with a price of at least the
\* minimum listing price, a reserve price (when entered) below the starting
\* price, a buy-now price (when entered) above it, and a balance that covers the
\* estimated gas; a submission that fails one of these records the error of each
\* failed condition and does not invoke onList.
C18_AuctionValidation ==
    [][ LET p          == ParseFloat(price)
            priceOk    == price # <<>> /\ p # NaN /\ p >= MIN_LISTING_PRICE
            reserveOk  == reservePrice = <<>> \/ ParseFloat(reservePrice) < p
            buyNowOk   == buyNowPrice = <<>> \/ ParseFloat(buyNowPrice) > p
            balanceOk  == listUserBalance >= listEstimatedGas
        IN  listingType = "auction" =>
              /\ listCalls' = listCalls + 1
                    => priceOk /\ reserveOk /\ buyNowOk /\ balanceOk
              /\ (ListClickSubmit /\ ~(priceOk /\ reserveOk /\ buyNowOk /\ balanceOk))
                    => /\ listCalls' = listCalls
                       /\ ~listPending'
                       /\ ~priceOk => "price" \in listErrors'
                       /\ ~reserveOk => "reservePrice" \in listErrors'
                       /\ ~buyNowOk => "buyNowPrice" \in listErrors'
                       /\ ~balanceOk => "balance" \in listErrors' ]_vars

\* C18 witness: an auction with a reserve and a buy-now price has been handed to
\* onList.
C18_Witness ==
    /\ listPending
    /\ listingType = "auction"
    /\ reservePrice # <<>>
    /\ buyNowPrice # <<>>
    /\ listErrors = {}

\* C19: onOffer is invoked only with an amount above zero that one of the user's
\* balances (STX or wrapped STX) covers and that, when the NFT has a current price
\* or else a floor price, is at least a tenth of it; a submission that fails one
\* of these records an amount error and does not invoke onOffer.
C19_OfferValidation ==
    [][ LET ref       == IF offerCurrentPrice # <<>> /\ offerCurrentPrice[1] > 0
                         THEN offerCurrentPrice[1]
                         ELSE IF offerFloorPrice # <<>> /\ offerFloorPrice[1] > 0
                         THEN offerFloorPrice[1]
                         ELSE 0
            Accepted(a) == /\ a > 0
                           /\ a <= offerUserBalance \/ a <= offerWstxBalance
                           /\ ref > 0 => 10 * a >= ref
        IN  /\ offerCalls' = offerCalls + 1
                => /\ offerLastCall' # <<>>
                   /\ Accepted(offerLastCall'[1].amount)
                   /\ offerLastCall'[1].amount = ParseFloat(amount)
            /\ (OfferClickSubmit /\ ~Accepted(ParseFloat(amount)))
                => /\ offerCalls' = offerCalls
                   /\ ~offerPending'
                   /\ offerLastCall' = offerLastCall
                   /\ "amount" \in offerErrors' ]_vars

\* C19 witness: an offer of 5 STX on an NFT priced at 20 STX has been handed to
\* onOffer with a balance that covers it.
C19_Witness ==
    /\ offerPending
    /\ offerLastCall # <<>>
    /\ offerLastCall[1].amount = 5000
    /\ offerCurrentPrice = <<20000>>
    /\ offerUserBalance >= 5000

\* C20 (as claimed): whenever no NFT fetch is in flight and at least one has
\* completed, hasMore equals (page * 24 < totalCount).
C20_HasMoreFormula ==
    (nftInFlight = {} /\ nextFid > 1) => (hasMore <=> (page * 24 < totalCount))

\* C21 (as claimed): at most one address resolution is in flight at any time
\* (and at most one debounce timer is pending, which debounceTimer holds by the
\* effect's cleanup).
C21_SingleResolution == resolving <= 1

\* C22 (as claimed): when the debounce timer fires, validateAddress gives the
\* empty text no verdict and no resolved address, starts a resolution for a text
\* that matches the domain pattern, gives a text that matches the address pattern
\* the verdict valid with no resolved address, and gives every other text the
\* verdict invalid; a resolution that completes gives the verdict valid with a
\* resolved address.
C22_Classification ==
    [][ /\ (debounceTimer /\ ~debounceTimer') =>
              IF recipient = <<>>
              THEN addressValid' = "null" /\ resolvedAddress' = <<>>
              ELSE IF MatchesBnsDomain(recipient)
              THEN resolving' = resolving + 1
              ELSE IF MatchesStacksAddress(recipient)
              THEN addressValid' = "true" /\ resolvedAddress' = <<>>
              ELSE addressValid' = "false"
        /\ resolving' < resolving
              => addressValid' = "true" /\ resolvedAddress' # <<>> ]_vars

\* C23 (as claimed): the active-filter count is 1 if the price range is not the
\* default range, else 0, plus the number of selected rarities, of selected
\* statuses and of trait keys with a non-empty selection.
C23_ActiveFilterCount ==
    activeFilterCount(filters, maxPrice) =
        (IF filters.priceRange # DEFAULT_PRICE_RANGE THEN 1 ELSE 0)
        + Len(filters.rarities) + Len(filters.statuses)
        + Cardinality({k \in DOMAIN filters.traits : filters.traits[k] # <<>>})

\* C30 (as claimed): once the parent holds the state that clearAllFilters
\* emitted, the active-filter count is 0, whatever the maxPrice prop.
C30_ClearedCountZero ==
    filterLastOp = "clearAllFilters" => activeFilterCount(filters, maxPrice) = 0

\* C24 (as claimed): once the component is unmounted none of its timers fires:
\* no fetch that was awaiting its timer at the unmount completes afterwards.
C24_NoTimerAfterUnmount ==
    [][ mounted = "unmounted"
          => (metaInFlight' = metaInFlight /\ nftInFlight' = nftInFlight) ]_vars

\* C25 (as claimed): under a consumer that calls fetchMore and refresh only,
\* whenever no fetch is in flight nfts is pages 1 to page in order: the items
\* numbered 0, 1, 2, ... up to the end of page `page`, each once.
C25_PagesInOrder ==
    (metaInFlight = <<>> /\ nftInFlight = {})
        => /\ Len(nfts) = Min(page * PAGE_SIZE, TotalSupply)
           /\ \A i \in DOMAIN nfts : nfts[i].id = i - 1

\* C26 (as claimed): every onTransfer invocation is made under a recipient text
\* that classification accepts, a domain name or an address.
C26_NoStaleVerdict ==
    xferLastCall # <<>> =>
        \/ MatchesBnsDomain(xferLastCall[1].typed)
        \/ MatchesStacksAddress(xferLastCall[1].typed)
        \/ LooksLikeStacksAddress(xferLastCall[1].typed)

\* C27: in each of the five modals the external action is called only while no
\* earlier call of it is outstanding, whatever the user did since that call.
C27_SingleCallInFlight ==
    [][ /\ Len(burnLog') > Len(burnLog) => ~burnPending
        /\ cancelCalls' > cancelCalls => ~cancelPending
        /\ listCalls' > listCalls => ~listPending
        /\ offerCalls' > offerCalls => ~offerPending
        /\ xferCalls' > xferCalls => ~xferPending ]_vars

\* C27 witness: while onTransfer is outstanding the user has gone back to the
\* Input view by the header arrow.
C27_Witness ==
    /\ mounted = "TransferNFTModal"
    /\ xferIsOpen
    /\ xferPending
    /\ xferIsSubmitting
    /\ ~showConfirmation

\* C28 (as claimed): whenever onList is invoked with listingType "fixed", the
\* submitted data carries no reservePrice and no buyNowPrice, whatever was typed
\* into those fields while auction mode was selected earlier.
C28_FixedCarriesNoAuctionFields ==
    [][ (listCalls' = listCalls + 1 /\ listData.listingType = "fixed")
            => /\ listData.reservePrice = <<>>
               /\ listData.buyNowPrice = <<>> ]_vars

\* C29 (as claimed): every quick-offer shortcut that is enabled pre-fills an
\* amount that passes the balance check of validate(): a submitted amount no
\* greater than userBalance + wstxBalance is never rejected as insufficient
\* balance.
C29_QuickOfferPassesBalance ==
    [][ /\ (\E i \in DOMAIN quickOfferPercentages :
                OfferSetQuickOffer(quickOfferPercentages[i]))
            => hasEnoughBalance'
        /\ (OfferClickSubmit /\ offerAmount <= totalBalance)
            => hasEnoughBalance ]_vars

\* C4 (as claimed): a fetchMore call made while any fetch is in flight, an NFT
\* page fetch or a metadata fetch, does not advance page and issues no fetch.
C4_FetchMoreNoOpWhileInFlight ==
    [][ (HookCallStep("fetchMore") /\ (metaInFlight # <<>> \/ nftInFlight # {}))
        => (page' = page /\ nftInFlight' = nftInFlight /\ metaInFlight' = metaInFlight)
      ]_vars

\* C5: the price range the parent holds is ordered, priceRange[0] <= priceRange[1],
\* in every state reachable by the component's operations; the parent adopts every
\* state applyPriceRange emits, whatever the two buffers hold.
C5_PriceRangeOrdered ==
    JsLe(filters.priceRange[1], filters.priceRange[2])

\* C5 witness: applyPriceRange has run with min typed larger than max.
C5_Witness ==
    /\ filterLastOp = "applyPriceRange"
    /\ localPriceMin = <<"2","0">>
    /\ localPriceMax = <<"5">>
    /\ filters.priceRange = <<5000, 20000>>

\* C6: after toggleTraitValue(traitType, value) has run twice in a row, the parent
\* adopting each emitted state, traits has the keys and the selected values it had
\* before the first of the two toggles.
C6_ToggleTwiceRestores ==
    (toggleRun # <<>> /\ toggleRun[3] = 2) => SameContent(filters.traits, traitsAtRunStart)

\* C6 witness: a value toggled off and on again beside another selected value of
\* the same trait and a selection of another trait.
C6_Witness ==
    /\ toggleRun = <<"Background", "Blue", 2>>
    /\ DOMAIN filters.traits = {"Background", "Eyes"}
    /\ Len(filters.traits["Background"]) = 2

\* C7: no key of traits maps to an empty selection, in every state reachable by
\* the component's operations.
C7_NoEmptyTraitKey ==
    \A k \in DOMAIN filters.traits : Len(filters.traits[k]) > 0

\* C7 witness: the last selected value of a trait has just been deselected.
C7_Witness ==
    /\ filterLastOp = "toggleTraitValue"
    /\ toggleRun = <<"Eyes", "Laser", 1>>
    /\ "Eyes" \in DOMAIN traitsAtRunStart
    /\ DOMAIN filters.traits = {"Background"}

\* C8: after clearAllFilters the parent holds exactly the fixed defaults, with the
\* default price range [0, 1000], and the two price buffers read 0 and maxPrice.
C8_ClearYieldsDefaults ==
    filterLastOp = "clearAllFilters" =>
        /\ filters = [ priceRange |-> <<0, DEFAULT_PRICE_RANGE[2]>>, rarities |-> <<>>,
                       statuses |-> <<>>, traits |-> EmptyObject,
                       currency |-> "STX", sortBy |-> "recent" ]
        /\ localPriceMin = <<"0">>
        /\ ParseFloat(localPriceMax) = maxPrice

\* C8 witness: a clear under a maxPrice prop other than the default maximum.
C8_Witness ==
    /\ filterLastOp = "clearAllFilters"
    /\ maxPrice # DEFAULT_PRICE_RANGE[2]
    /\ localPriceMax = <<"2","0","0","0">>

\* C9: with sufficient balance and nothing loading, the Burn button is enabled
\* exactly when the confirmation text equals "BURN" up to case; with any other
\* text it is disabled, and every onBurn invocation was made under such a text.
C9_BurnGate ==
    /\ (burnIsOpen /\ burnHasEnoughGas /\ ~burnLoading) =>
          (~burnSubmitDisabled <=> EqualsIgnoreCase(confirmText, <<"B","U","R","N">>))
    /\ ~EqualsIgnoreCase(confirmText, <<"B","U","R","N">>) => burnSubmitDisabled
    /\ \A i \in DOMAIN burnLog : EqualsIgnoreCase(burnLog[i], <<"B","U","R","N">>)

\* C9 witness: onBurn has been invoked under a lower-case confirmation.
C9_Witness ==
    /\ burnLog # <<>>
    /\ burnLog[1] = <<"b","u","r","n">>
    /\ burnPending

\* C10: the marketplace fee is 2.5% of the entered price (a fortieth), the creator
\* royalty 5% (a twentieth), the proceeds the price less both; 92.5 for a price
\* of 100. (Price in thousandths, the derived amounts in millionths.)
C10_FeeBreakdown ==
    /\ 40 * marketplaceFee = priceValue * 1000
    /\ 20 * creatorRoyalty = priceValue * 1000
    /\ youReceive + marketplaceFee + creatorRoyalty = priceValue * 1000
    /\ price = <<"1","0","0">> => youReceive = 92500000

\* C10 witness: the price 100 has been entered.
C10_Witness ==
    /\ listIsOpen
    /\ price = <<"1","0","0">>
    /\ marketplaceFee = 2500000
    /\ creatorRoyalty = 5000000

====
